---- MODULE Spec2Model ----
(***************************************************************************)
(* The endpoint runtime of mirrorx_core/src/service/endpoint/endpoint.rs:  *)
(* the call/reply multiplexer of one session (EndPoint::call, send,        *)
(* set_call_reply, handle_message), its reader and writer tasks            *)
(* (serve_reader, serve_writer) and the process-wide registry ENDPOINTS    *)
(* that connect() fills and the two tasks clear.                           *)
(*                                                                         *)
(* Spec      one established session: callers, reader, handler tasks,      *)
(*           writer.                                                       *)
(* SpecWrap  the same session with its outbound queue saturated and the    *)
(*           writer stalled, where the 16-bit call id counter wraps.       *)
(* SpecReg   connect() invocations and the teardown of their sessions.     *)
(***************************************************************************)
EXTENDS Integers, Sequences, FiniteSets, Bags, TLC

\* ---------------------------------------------------------------- bounds
MaxCalls == 2
MaxInflight == 2
MaxBursts == 1
MaxSessions == 2
NumPeers == 1
MaxPushes == 2
MaxFrames == 3

\* ------------------------------------------------------ program constants
\* atomic_call_id is an AtomicU16: fetch_add wraps modulo 2^16.
CallIdModulus == 65536
\* tokio::sync::mpsc::channel(128)
PacketQueueCapacity == 128
\* crossbeam::channel::bounded(1) between capture and encode
CaptureQueueCapacity == 1
\* crossbeam::channel::bounded(16) between handle_message and decode
VideoFrameCapacity == 16
\* crossbeam::channel::bounded::<AudioFrame>(48000 / 960 * 2)
AudioFrameCapacity == 100

\* Two application threads that call into the session concurrently.
Callers == {1, 2}
Sessions == 1..MaxSessions
PeerIds == 1..NumPeers
NoSession == 0
NoCaller == 0
\* The session whose multiplexer Spec and SpecWrap follow.
S0 == 1
\* The processes that start_video_capture and start_video_render start.
PipeTasks == {"capture", "encode", "decode", "render"}

VARIABLES
    \* ---- EndPoint of session S0
    atomic_call_id,      \* EndPoint.atomic_call_id
    call_reply_tx_map,   \* EndPoint.call_reply_tx_map: call_id -> caller owning the oneshot
    packet_queue,        \* the mpsc channel packet_tx / packet_rx
    \* ---- one call() invocation per caller
    pc,                  \* position of the caller inside call()
    call_id,             \* the local call_id of call()
    rx,                  \* the oneshot Receiver returned by register_call
    result,              \* what call() returned
    accepted,            \* whether send(packet) of this call returned Ok
    fulfilled,           \* successful tx.send(message) into this call's oneshot
    ncalls,              \* call() invocations started so far
    nbursts,             \* CallsFailFast steps taken so far
    \* ---- serve_writer of session S0
    sealing_nonce,       \* counter inside the NonceValue of sealing_key
    nsealed,             \* envelopes sealed successfully
    wire,                \* nonces of the frames sink.send wrote, in order
    \* ---- serve_reader of session S0
    tasks,               \* bag of the spawned handle_message tasks that have not run yet
    dropped,             \* a Response found no entry in call_reply_tx_map and was dropped
    \* ---- registry and tasks of every session
    ENDPOINTS,           \* ENDPOINTS: remote_device_id -> session
    conn,                \* position of connect() for each session
    remote_device_id,    \* the remote_device_id given to connect()
    reader,              \* state of the task spawned by serve_reader
    writer,              \* state of the task spawned by serve_writer
    \* ---- pipelines of session S0
    exit_chan,           \* messages waiting in the channel exit_tx / exit_rx
    pipe,                \* state of the capture, encode, decode and render processes
    media_handler,       \* position of the task handling StartMediaTransmissionRequest
    npushed,             \* VideoFrame Pushes the outbound queue has accepted
    capture_frame_q,     \* frames in the channel capture_frame_tx / capture_frame_rx
    \* ---- inbound pushes of session S0
    video_frame_tx,      \* EndPoint.video_frame_tx: "unset" or "set"
    video_frame_queue,   \* frames in the channel video_frame_tx / video_frame_rx
    nframes,             \* Push packets the reader has received so far
    mouse_dispatched,    \* MouseEventFrames in the order the handler got them
    audio_frame_tx,      \* EndPoint.audio_frame_tx: "unset" or "set"
    audio_frame_queue,   \* frames in the channel audio_frame_tx / audio_frame_rx
    \* ---- what the latest step of a loop or of connect() met
    capture_last,        \* what the latest tick of the capture loop of S0 met
    read_result,         \* what the latest turn of the reader loop of S0 met
    handshake_response_buf, \* what read_exact of the handshake byte gave connect()
    \* ---- file download served by session S0
    download,            \* handler of DownloadFileRequest and the task it spawns
    \* ---- media library objects
    video_decoder,       \* the fields of one VideoDecoder and its output channel
    \* ---- start_video_capture and start_video_render of session S0
    video_capture,       \* what a start_video_capture call chose, started and recorded
    video_render         \* the pipelines start_video_render started and their channels

muxVars == <<atomic_call_id, call_reply_tx_map, packet_queue>>
callVars == <<pc, call_id, rx, result, accepted, fulfilled, ncalls, nbursts>>
writerVars == <<sealing_nonce, nsealed, wire>>
readerVars == <<tasks, dropped>>
regVars == <<ENDPOINTS, conn, remote_device_id, reader, writer>>
pipeVars == <<exit_chan, pipe, media_handler, npushed, capture_frame_q>>
mediaVars == <<video_frame_tx, video_frame_queue, nframes, mouse_dispatched>>
audioVars == <<audio_frame_tx, audio_frame_queue>>
libVars == <<video_decoder, video_capture, video_render>>
moreVars == <<audioVars, capture_last, read_result, handshake_response_buf, download,
              libVars>>
extVars == <<pipeVars, mediaVars, moreVars>>
vars == <<muxVars, callVars, writerVars, readerVars, regVars, extVars>>

\* ------------------------------------------------------------ data values
NoRx == [st |-> "none", call_id |-> 0]
EmptyRx == [st |-> "empty", call_id |-> 0]
ClosedRx == [st |-> "closed", call_id |-> 0]
\* The message of packet t sits in the oneshot; it is named by the call_id its
\* envelope carried.
ValueRx(t) == [st |-> "value", call_id |-> t.call_id]

NoResult == [kind |-> "None", call_id |-> 0]
TimeoutResult == [kind |-> "Timeout", call_id |-> 0]
SendErrorResult == [kind |-> "SendError", call_id |-> 0]
OkResult(r) == [kind |-> "Ok", call_id |-> r.call_id]

Packet(typ, id) == [typ |-> typ, call_id |-> id]
\* call_id: None
NoCallId == -1

\* ------------------------------------------------- EndPoint map operations
\* DashMap::insert(call_id, tx): an entry already under call_id is replaced.
register_call(map, id, c) ==
    [k \in DOMAIN map \cup {id} |-> IF k = id THEN c ELSE map[k]]

\* DashMap::remove(&call_id)
remove_call(map, id) ==
    [k \in DOMAIN map \ {id} |-> map[k]]

\* A remove that takes the first pending entry instead of the one under id.
removed_tx_first(map, id) ==
    IF id \in DOMAIN map
        THEN map[CHOOSE k \in DOMAIN map : \A j \in DOMAIN map : k <= j]
        ELSE NoCaller

\* The Sender that remove_call(call_id) returns: Some(tx) of the owner, or None.
removed_tx(map, id) ==
    IF id \in DOMAIN map THEN map[id] ELSE NoCaller

\* The Receiver of caller c is alive from register_call until the future that
\* holds it is dropped, which happens when the timeout(..).await completes.
RxAlive(c) == pc[c] \in {"registered", "waiting"}

\* Dropping the Sender of caller d without a send: a live empty Receiver
\* resolves to Err (RecvError).
DropTx(rxs, d) ==
    IF d # NoCaller /\ rxs[d].st = "empty"
        THEN [rxs EXCEPT ![d] = ClosedRx]
        ELSE rxs

\* ------------------------------------------------------------------ Init
\* The ids of the two transfers the peer asks for (req.id).
TransferIds == {1, 2}

\* No DownloadFileRequest was received: no handler runs, no transfer task
\* was spawned, nothing was sent for the transfer.
NoDownload == [handler |-> "idle", task |-> "none", slept |-> 0, sent |-> << >>]

\* VideoDecoder::new: output_tx is None (0; otherwise the number of the
\* open() call that made the channel), the codec is not opened, no packet
\* was given to decode(). `output` is what the channel of output_tx holds.
NewVideoDecoder ==
    [output_tx |-> 0, opens |-> 0, open_result |-> "none", packets |-> 0,
     pictures |-> 0, decode_result |-> "none", output |-> << >>]

\* A session on which start_video_capture was not called: display_id is
\* unset (0), no monitor was chosen, no process was started.
NoVideoCapture ==
    [result |-> "none", monitors |-> << >>, requested |-> 0, except_fps |-> 0,
     monitor |-> 0, capture_display |-> 0, capture_fps |-> 0,
     encoder_monitor |-> 0, encoder_fps |-> 0, display_id |-> 0]

\* A session on which start_video_render was not called: video_frame_tx is
\* unset (handle 0) and no pipeline has a channel.
NoVideoRender ==
    [calls |-> 0, started |-> 0, handle |-> 0, received |-> << >>, pushes |-> 0]

\* The state connect() leaves behind for session s: the EndPoint it built
\* (atomic_call_id 0, empty map, empty queue), both tasks spawned, the
\* session inserted under its remote_device_id.
InitEndPoint ==
    /\ atomic_call_id = 0
    /\ call_reply_tx_map = << >>
    /\ pc = [c \in Callers |-> "idle"]
    /\ call_id = [c \in Callers |-> 0]
    /\ rx = [c \in Callers |-> NoRx]
    /\ result = [c \in Callers |-> NoResult]
    /\ accepted = [c \in Callers |-> FALSE]
    /\ fulfilled = [c \in Callers |-> 0]
    /\ ncalls = 0
    /\ nbursts = 0
    /\ sealing_nonce = 0
    /\ nsealed = 0
    /\ wire = << >>
    /\ tasks = EmptyBag
    /\ dropped = FALSE

\* No pipeline was started: the exit channel is empty, video_frame_tx is
\* OnceCell::new(), nothing was received.
InitNoMedia ==
    /\ exit_chan = 0
    /\ pipe = [t \in PipeTasks |-> "none"]
    /\ media_handler = "idle"
    /\ npushed = 0
    /\ capture_frame_q = 0
    /\ video_frame_tx = "unset"
    /\ video_frame_queue = << >>
    /\ nframes = 0
    /\ mouse_dispatched = << >>
    /\ audio_frame_tx = "unset"
    /\ audio_frame_queue = << >>
    /\ capture_last = "none"
    /\ read_result = "none"
    /\ download = [t \in TransferIds |-> NoDownload]
    /\ video_decoder = NewVideoDecoder
    /\ video_capture = NoVideoCapture
    /\ video_render = NoVideoRender

InitEstablished ==
    /\ InitEndPoint
    /\ ENDPOINTS = [p \in PeerIds |-> IF p = 1 THEN S0 ELSE NoSession]
    /\ conn = [s \in Sessions |-> IF s = S0 THEN "done" ELSE "idle"]
    /\ remote_device_id = [s \in Sessions |-> 1]
    /\ reader = [s \in Sessions |-> IF s = S0 THEN "running" ELSE "none"]
    /\ writer = [s \in Sessions |-> IF s = S0 THEN "running" ELSE "none"]
    /\ handshake_response_buf = [s \in Sessions |-> IF s = S0 THEN "accept" ELSE "none"]

Init ==
    /\ InitEstablished
    /\ InitNoMedia
    /\ packet_queue = << >>

\* ------------------------------------------------------- EndPoint::call
\* The API entry points take a remote_device_id and look the session up in
\* ENDPOINTS for every call; then call() runs
\*   let call_id = self.atomic_call_id.fetch_add(1, Ordering::SeqCst);
CallStart(c) ==
    /\ pc[c] \in {"idle", "returned"}
    /\ ncalls < MaxCalls
    /\ ENDPOINTS[remote_device_id[S0]] = S0
    /\ call_id' = [call_id EXCEPT ![c] = atomic_call_id]
    /\ atomic_call_id' = (atomic_call_id + 1) % CallIdModulus
    /\ pc' = [pc EXCEPT ![c] = "alloc"]
    /\ rx' = [rx EXCEPT ![c] = NoRx]
    /\ result' = [result EXCEPT ![c] = NoResult]
    /\ accepted' = [accepted EXCEPT ![c] = FALSE]
    /\ fulfilled' = [fulfilled EXCEPT ![c] = 0]
    /\ ncalls' = ncalls + 1
    /\ UNCHANGED <<call_reply_tx_map, packet_queue, nbursts>>
    /\ UNCHANGED <<writerVars, readerVars, regVars>>
    /\ UNCHANGED extVars

\* A call() that makes the oneshot channel but leaves the map without the
\* slot when the Request is sent.
CallRegisterNoInsert(c) ==
    /\ pc[c] = "alloc"
    /\ rx' = [rx EXCEPT ![c] = EmptyRx]
    /\ pc' = [pc EXCEPT ![c] = "registered"]
    /\ UNCHANGED <<atomic_call_id, call_reply_tx_map, packet_queue>>
    /\ UNCHANGED <<call_id, result, accepted, fulfilled, ncalls, nbursts>>
    /\ UNCHANGED <<writerVars, readerVars, regVars>>
    /\ UNCHANGED extVars

\*   let rx = self.register_call(call_id);
\* The Sender an overwritten entry held is dropped by the insert.
CallRegister(c) ==
    /\ pc[c] = "alloc"
    /\ call_reply_tx_map' = register_call(call_reply_tx_map, call_id[c], c)
    /\ rx' = [DropTx(rx, removed_tx(call_reply_tx_map, call_id[c]))
                EXCEPT ![c] = EmptyRx]
    /\ pc' = [pc EXCEPT ![c] = "registered"]
    /\ UNCHANGED <<atomic_call_id, packet_queue>>
    /\ UNCHANGED <<call_id, result, accepted, fulfilled, ncalls, nbursts>>
    /\ UNCHANGED <<writerVars, readerVars, regVars>>
    /\ UNCHANGED extVars

\* try_send that takes one packet more than the channel's capacity.
CanSendOverfull == /\ Len(packet_queue) <= PacketQueueCapacity
                   /\ writer[S0] # "exited"

\* EndPoint::send: packet_tx.try_send(packet). It fails when the channel holds
\* PacketQueueCapacity packets (Full) or when packet_rx was dropped (Closed),
\* which the writer task does when it ends.
CanSend == /\ Len(packet_queue) < PacketQueueCapacity
           /\ writer[S0] # "exited"

\* First poll of the timeout future: the async block sends the Request; on
\* Err(err) it returns Err(err), else it awaits rx.
CallSend(c) ==
    /\ pc[c] = "registered"
    /\ IF CanSend
          THEN /\ packet_queue' = Append(packet_queue, Packet("Request", call_id[c]))
               /\ accepted' = [accepted EXCEPT ![c] = TRUE]
               /\ pc' = [pc EXCEPT ![c] = "waiting"]
               /\ UNCHANGED result
          ELSE /\ result' = [result EXCEPT ![c] = SendErrorResult]
               /\ pc' = [pc EXCEPT ![c] = "done"]
               /\ UNCHANGED <<packet_queue, accepted>>
    /\ UNCHANGED <<atomic_call_id, call_reply_tx_map>>
    /\ UNCHANGED <<call_id, rx, fulfilled, ncalls, nbursts>>
    /\ UNCHANGED <<writerVars, readerVars, regVars>>
    /\ UNCHANGED extVars

\* rx.await resolves: Ok(message) => Ok(message), Err(_) => Err(Timeout).
CallRecv(c) ==
    /\ pc[c] = "waiting"
    /\ rx[c].st \in {"value", "closed"}
    /\ result' = [result EXCEPT ![c] =
                    IF rx[c].st = "value" THEN OkResult(rx[c]) ELSE TimeoutResult]
    /\ pc' = [pc EXCEPT ![c] = "done"]
    /\ UNCHANGED <<muxVars, writerVars, readerVars, regVars>>
    /\ UNCHANGED <<call_id, rx, accepted, fulfilled, ncalls, nbursts>>
    /\ UNCHANGED extVars

\* The duration elapses while rx is still pending: .map_err(|_| Timeout).
\* tokio's Timeout polls the inner future first, so a value already in the
\* oneshot wins over the timer.
CallTimeout(c) ==
    /\ pc[c] = "waiting"
    /\ rx[c].st = "empty"
    /\ result' = [result EXCEPT ![c] = TimeoutResult]
    /\ pc' = [pc EXCEPT ![c] = "done"]
    /\ UNCHANGED <<muxVars, writerVars, readerVars, regVars>>
    /\ UNCHANGED <<call_id, rx, accepted, fulfilled, ncalls, nbursts>>
    /\ UNCHANGED extVars

\* call() with the slot taken out only after a reply: the error returns
\* leave the entry in the map.
CallDeferOnReplyOnly(c) ==
    /\ pc[c] = "done"
    /\ IF result[c].kind = "Ok"
          THEN /\ call_reply_tx_map' = remove_call(call_reply_tx_map, call_id[c])
               /\ rx' = [DropTx(rx, removed_tx(call_reply_tx_map, call_id[c]))
                           EXCEPT ![c] = NoRx]
          ELSE /\ rx' = [rx EXCEPT ![c] = NoRx]
               /\ UNCHANGED call_reply_tx_map
    /\ pc' = [pc EXCEPT ![c] = "returned"]
    /\ UNCHANGED <<atomic_call_id, packet_queue>>
    /\ UNCHANGED <<call_id, result, accepted, fulfilled, ncalls, nbursts>>
    /\ UNCHANGED <<writerVars, readerVars, regVars>>
    /\ UNCHANGED extVars

\* defer! { self.remove_call(call_id); } runs as call() returns; the Sender
\* it takes out of the map, whoever registered it, is dropped.
CallDefer(c) ==
    /\ pc[c] = "done"
    /\ call_reply_tx_map' = remove_call(call_reply_tx_map, call_id[c])
    /\ rx' = [DropTx(rx, removed_tx(call_reply_tx_map, call_id[c]))
                EXCEPT ![c] = NoRx]
    /\ pc' = [pc EXCEPT ![c] = "returned"]
    /\ UNCHANGED <<atomic_call_id, packet_queue>>
    /\ UNCHANGED <<call_id, result, accepted, fulfilled, ncalls, nbursts>>
    /\ UNCHANGED <<writerVars, readerVars, regVars>>
    /\ UNCHANGED extVars

\* ------------------------------------------------------------- registry
\* DashMap::insert(remote_device_id, endpoint): replaces an entry under the key.
registry_insert(reg, id, s) == [reg EXCEPT ![id] = s]

\* DashMap::remove(&remote_device_id): removes whatever entry is under the key;
\* an absent key is left absent and nothing is raised.
registry_remove(reg, id) == [reg EXCEPT ![id] = NoSession]

\* ---------------------------------------------------------- serve_writer
\* NonceSequence::advance of the sealing key's NonceValue: the counter value
\* is the nonce of this frame and the counter moves on by one.
NonceAdvance(n) == [nonce |-> n, next |-> n + 1]

\* A receive that takes the packet sent last.
PopQueueLast(queue) == SubSeq(queue, 1, Len(queue) - 1)

\* packet_rx.recv(): the channel without the packet that was sent first.
PopQueue(queue) == Tail(queue)

\* One turn of the writer loop over the packet popped from packet_rx:
\* serialize, seal_in_place_append_tag, sink.send; each failure breaks.
WriterOutcomes == {"ok", "serialize_err", "seal_err", "write_err"}

\* The writer loop with `continue` in place of `break` after a failed
\* sink.send: the sealed frame is lost and the loop goes on.
WriterStepNoBreak(outcome) ==
    /\ writer[S0] = "running"
    /\ packet_queue # << >>
    /\ packet_queue' = PopQueue(packet_queue)
    /\ LET adv == NonceAdvance(sealing_nonce)
       IN  CASE outcome = "ok" ->
                  /\ sealing_nonce' = adv.next
                  /\ nsealed' = nsealed + 1
                  /\ wire' = Append(wire, adv.nonce)
                  /\ UNCHANGED writer
              [] outcome = "write_err" ->
                  /\ sealing_nonce' = adv.next
                  /\ nsealed' = nsealed + 1
                  /\ UNCHANGED <<wire, writer>>
              [] OTHER ->
                  /\ writer' = [writer EXCEPT ![S0] = "broke"]
                  /\ UNCHANGED <<sealing_nonce, nsealed, wire>>
    /\ UNCHANGED <<atomic_call_id, call_reply_tx_map>>
    /\ UNCHANGED <<callVars, readerVars>>
    /\ UNCHANGED <<ENDPOINTS, conn, remote_device_id, reader>>
    /\ UNCHANGED extVars

WriterStep(outcome) ==
    /\ writer[S0] = "running"
    /\ packet_queue # << >>
    /\ packet_queue' = PopQueue(packet_queue)
    /\ LET adv == NonceAdvance(sealing_nonce)
       IN  CASE outcome = "ok" ->
                  /\ sealing_nonce' = adv.next
                  /\ nsealed' = nsealed + 1
                  /\ wire' = Append(wire, adv.nonce)
                  /\ UNCHANGED writer
              [] outcome = "write_err" ->
                  /\ sealing_nonce' = adv.next
                  /\ nsealed' = nsealed + 1
                  /\ writer' = [writer EXCEPT ![S0] = "broke"]
                  /\ UNCHANGED wire
              [] OTHER ->
                  /\ writer' = [writer EXCEPT ![S0] = "broke"]
                  /\ UNCHANGED <<sealing_nonce, nsealed, wire>>
    /\ UNCHANGED <<atomic_call_id, call_reply_tx_map>>
    /\ UNCHANGED <<callVars, readerVars>>
    /\ UNCHANGED <<ENDPOINTS, conn, remote_device_id, reader>>
    /\ UNCHANGED extVars

\* packet_tx lives in the EndPoint and in the clone start_video_capture gives
\* to the encode process, so the channel closes when that process has ended
\* and the last Arc<EndPoint> is dropped: the local `endpoint` of connect()
\* until the insert moves it, the registry entry, the reader task, and for S0
\* the handler tasks and the callers.
SenderHeld(s) ==
    \/ conn[s] \in {"reader_spawned", "writer_spawned"}
    \/ ENDPOINTS[remote_device_id[s]] = s
    \/ reader[s] \in {"running", "broke"}
    \/ /\ s = S0
       /\ \/ tasks # EmptyBag
          \/ \E c \in Callers : pc[c] \notin {"idle", "returned"}
          \/ media_handler \in {"spawned", "capture_started", "encode_started"}
          \/ pipe["encode"] = "running"

\* packet_rx.recv() returns None: "writer tx closed", break.
WriterQueueClosed(s) ==
    /\ writer[s] = "running"
    /\ s = S0 => packet_queue = << >>
    /\ ~SenderHeld(s)
    /\ writer' = [writer EXCEPT ![s] = "broke"]
    /\ UNCHANGED <<ENDPOINTS, conn, remote_device_id, reader>>
    /\ UNCHANGED <<muxVars, callVars, writerVars, readerVars>>
    /\ UNCHANGED extVars

\* After the loop: ENDPOINTS.remove(&remote_device_id); the task ends and
\* drops packet_rx.
WriterRemove(s) ==
    /\ writer[s] = "broke"
    /\ ENDPOINTS' = registry_remove(ENDPOINTS, remote_device_id[s])
    /\ writer' = [writer EXCEPT ![s] = "exited"]
    /\ UNCHANGED <<conn, remote_device_id, reader>>
    /\ UNCHANGED <<muxVars, callVars, writerVars, readerVars>>
    /\ UNCHANGED extVars

\* ---------------------------------------------------------- serve_reader
\* The call ids a peer's Response may carry: those the callers hold or held,
\* and one that no call has been given yet.
ResponseIds == {call_id[c] : c \in {d \in Callers : pc[d] # "idle"}} \cup {atomic_call_id}

\* One turn of the reader loop on a frame that opens and deserializes: the
\* packet is moved into a freshly spawned handle_message task.
ReaderRecv(id) ==
    /\ reader[S0] = "running"
    /\ BagCardinality(tasks) < MaxInflight
    /\ tasks' = tasks (+) SetToBag({[typ |-> "Response", call_id |-> id]})
    /\ UNCHANGED dropped
    /\ UNCHANGED <<muxVars, callVars, writerVars, regVars>>
    /\ UNCHANGED extVars

\* stream.next() yields None or Err, open_in_place fails, or deserialize
\* fails: break.
ReaderCauses == {"closed", "read_err", "decrypt_err", "deserialize_err"}

ReaderBreak(s, cause) ==
    /\ reader[s] = "running"
    /\ reader' = [reader EXCEPT ![s] = "broke"]
    /\ UNCHANGED <<ENDPOINTS, conn, remote_device_id, writer>>
    /\ UNCHANGED <<muxVars, callVars, writerVars, readerVars>>
    /\ UNCHANGED extVars

\* After the loop: ENDPOINTS.remove(endpoint.remote_device_id()).
ReaderRemove(s) ==
    /\ reader[s] = "broke"
    /\ ENDPOINTS' = registry_remove(ENDPOINTS, remote_device_id[s])
    /\ reader' = [reader EXCEPT ![s] = "exited"]
    /\ UNCHANGED <<conn, remote_device_id, writer>>
    /\ UNCHANGED <<muxVars, callVars, writerVars, readerVars>>
    /\ UNCHANGED extVars

\* -------------------------------------- handle_message / set_call_reply
\* handle_message that answers a Response without a pending call the way an
\* unserved Request is answered: with an Error Response under the same id.
HandleMessageErrorReply(t) ==
    /\ BagIn(t, tasks)
    /\ tasks' = tasks (-) SetToBag({t})
    /\ LET d == removed_tx(call_reply_tx_map, t.call_id)
       IN  IF d # NoCaller
              THEN /\ call_reply_tx_map' = remove_call(call_reply_tx_map, t.call_id)
                   /\ IF RxAlive(d)
                         THEN /\ rx' = [rx EXCEPT ![d] = ValueRx(t)]
                              /\ fulfilled' = [fulfilled EXCEPT ![d] = @ + 1]
                         ELSE UNCHANGED <<rx, fulfilled>>
                   /\ UNCHANGED <<dropped, packet_queue>>
              ELSE /\ dropped' = TRUE
                   /\ packet_queue' = IF CanSend
                                         THEN Append(packet_queue, Packet("Response", t.call_id))
                                         ELSE packet_queue
                   /\ UNCHANGED <<call_reply_tx_map, rx, fulfilled>>
    /\ UNCHANGED atomic_call_id
    /\ UNCHANGED <<pc, call_id, result, accepted, ncalls, nbursts>>
    /\ UNCHANGED <<writerVars, regVars>>
    /\ UNCHANGED extVars

\* Response with Some(call_id): set_call_reply(call_id, message) removes the
\* entry and sends the message into its oneshot; tx.send fails when the
\* Receiver is gone. Without an entry nothing happens.
HandleMessage(t) ==
    /\ BagIn(t, tasks)
    /\ tasks' = tasks (-) SetToBag({t})
    /\ LET d == removed_tx(call_reply_tx_map, t.call_id)
       IN  IF d # NoCaller
              THEN /\ call_reply_tx_map' = remove_call(call_reply_tx_map, t.call_id)
                   /\ IF RxAlive(d)
                         THEN /\ rx' = [rx EXCEPT ![d] = ValueRx(t)]
                              /\ fulfilled' = [fulfilled EXCEPT ![d] = @ + 1]
                         ELSE UNCHANGED <<rx, fulfilled>>
                   /\ UNCHANGED dropped
              ELSE /\ dropped' = TRUE
                   /\ UNCHANGED <<call_reply_tx_map, rx, fulfilled>>
    /\ UNCHANGED <<atomic_call_id, packet_queue>>
    /\ UNCHANGED <<pc, call_id, result, accepted, ncalls, nbursts>>
    /\ UNCHANGED <<writerVars, regVars>>
    /\ UNCHANGED extVars

\* ------------------------------------------------------------------ Spec
Next ==
    \/ \E c \in Callers : CallStart(c)
    \/ \E c \in Callers : CallRegister(c)
    \/ \E c \in Callers : CallSend(c)
    \/ \E c \in Callers : CallRecv(c)
    \/ \E c \in Callers : CallTimeout(c)
    \/ \E c \in Callers : CallDefer(c)
    \/ \E o \in WriterOutcomes : WriterStep(o)
    \/ WriterQueueClosed(S0)
    \/ WriterRemove(S0)
    \/ \E id \in ResponseIds : ReaderRecv(id)
    \/ \E cause \in ReaderCauses : ReaderBreak(S0, cause)
    \/ ReaderRemove(S0)
    \/ \E t \in BagToSet(tasks) : HandleMessage(t)

Spec == Init /\ [][Next]_vars

\* -------------------------------------------------------------- SpecWrap
\* The session while its writer does not get to pop: PacketQueueCapacity - 1
\* Push envelopes (mouse events, media frames) that send() accepted wait in
\* the queue, so one more envelope fills it and every later try_send is Full.
InitWrap ==
    /\ InitEstablished
    /\ InitNoMedia
    /\ packet_queue = [i \in 1..(PacketQueueCapacity - 1) |-> Packet("Push", NoCallId)]

\* The call ids of n consecutive fetch_adds starting at the counter.
InBurst(k, n) == ((k - atomic_call_id + CallIdModulus) % CallIdModulus) < n

BurstSizes == {CallIdModulus - 2, CallIdModulus - 1}

\* n further call() invocations on the session, each run from fetch_add to
\* its return with nothing in between, while the queue is full: each takes
\* the next call id, register_call inserts it (replacing, and so dropping, an
\* entry already under that id), try_send fails with Full, and the deferred
\* remove_call takes the entry out again.
CallsFailFast(n) ==
    /\ nbursts < MaxBursts
    /\ ENDPOINTS[remote_device_id[S0]] = S0
    /\ Len(packet_queue) = PacketQueueCapacity
    /\ nbursts' = nbursts + 1
    /\ atomic_call_id' = (atomic_call_id + n) % CallIdModulus
    /\ call_reply_tx_map' =
          [k \in {j \in DOMAIN call_reply_tx_map : ~InBurst(j, n)} |-> call_reply_tx_map[k]]
    /\ rx' = [c \in Callers |->
               IF /\ rx[c].st = "empty"
                  /\ \E k \in DOMAIN call_reply_tx_map :
                        call_reply_tx_map[k] = c /\ InBurst(k, n)
                  THEN ClosedRx
                  ELSE rx[c]]
    /\ UNCHANGED packet_queue
    /\ UNCHANGED <<pc, call_id, result, accepted, fulfilled, ncalls>>
    /\ UNCHANGED <<writerVars, readerVars, regVars>>
    /\ UNCHANGED extVars

NextWrap ==
    \/ \E c \in Callers : CallStart(c)
    \/ \E c \in Callers : CallRegister(c)
    \/ \E c \in Callers : CallSend(c)
    \/ \E c \in Callers : CallRecv(c)
    \/ \E c \in Callers : CallTimeout(c)
    \/ \E c \in Callers : CallDefer(c)
    \/ \E n \in BurstSizes : CallsFailFast(n)
    \/ \E id \in ResponseIds : ReaderRecv(id)
    \/ \E t \in BagToSet(tasks) : HandleMessage(t)

SpecWrap == InitWrap /\ [][NextWrap]_vars

\* --------------------------------------------------------------- SpecReg
\* connect() invocations, one per session, and the teardown of the sessions
\* they build. The sessions carry no traffic here, so a writer task ends only
\* when its queue closes.
InitReg ==
    /\ InitEndPoint
    /\ InitNoMedia
    /\ packet_queue = << >>
    /\ ENDPOINTS = [p \in PeerIds |-> NoSession]
    /\ conn = [s \in Sessions |-> "idle"]
    /\ remote_device_id = [s \in Sessions |-> 1]
    /\ reader = [s \in Sessions |-> "none"]
    /\ writer = [s \in Sessions |-> "none"]
    /\ handshake_response_buf = [s \in Sessions |-> "none"]

\* connect(addr, .., remote_device_id = p, ..): TcpStream::connect within 10 s,
\* set_nodelay, the two zero-padded device ids checked to be 10 bytes long
\* and written; any failure returns Err. Sessions are
\* numbered in the order their connect() starts.
ConnectBegin(s, p, ok) ==
    /\ conn[s] = "idle"
    /\ \A t \in Sessions : t < s => conn[t] # "idle"
    /\ remote_device_id' = [remote_device_id EXCEPT ![s] = p]
    /\ conn' = [conn EXCEPT ![s] = IF ok THEN "handshake" ELSE "failed"]
    /\ UNCHANGED <<ENDPOINTS, reader, writer>>
    /\ UNCHANGED <<muxVars, callVars, writerVars, readerVars>>
    /\ UNCHANGED extVars

\* What read_exact of the one handshake byte yields within 60 s.
HandshakeResponses == {"accept", "reject", "timeout", "read_err"}

\* A check that takes any byte that was read for the accepting one.
HandshakeAcceptedAnyByte(resp) == resp \in {"accept", "reject"}

\* read_exact returned Ok within the timeout and handshake_response_buf[0]
\* is 1 ("accept"); "reject" is any other byte.
HandshakeAccepted(resp) == resp = "accept"

\* The handshake byte is read. Unless it is 1 connect() returns Err; else the
\* framed stream, the channel and the EndPoint are built and
\*   serve_reader(endpoint.clone(), stream, opening_key);
\* spawns the reader task, which runs from now on beside connect().
ConnectHandshake(s, resp) ==
    /\ conn[s] = "handshake"
    /\ handshake_response_buf' = [handshake_response_buf EXCEPT ![s] = resp]
    /\ IF HandshakeAccepted(resp)
          THEN /\ reader' = [reader EXCEPT ![s] = "running"]
               /\ conn' = [conn EXCEPT ![s] = "reader_spawned"]
          ELSE /\ conn' = [conn EXCEPT ![s] = "failed"]
               /\ UNCHANGED reader
    /\ UNCHANGED <<ENDPOINTS, remote_device_id, writer>>
    /\ UNCHANGED <<muxVars, callVars, writerVars, readerVars>>
    /\ UNCHANGED <<pipeVars, mediaVars, audioVars, capture_last, read_result, download, libVars>>

\*   serve_writer(remote_device_id.clone(), packet_rx, sink, sealing_key);
ConnectServeWriter(s) ==
    /\ conn[s] = "reader_spawned"
    /\ writer' = [writer EXCEPT ![s] = "running"]
    /\ conn' = [conn EXCEPT ![s] = "writer_spawned"]
    /\ UNCHANGED <<ENDPOINTS, remote_device_id, reader>>
    /\ UNCHANGED <<muxVars, callVars, writerVars, readerVars>>
    /\ UNCHANGED extVars

\*   ENDPOINTS.insert(remote_device_id, endpoint);  Ok(())
ConnectInsert(s) ==
    /\ conn[s] = "writer_spawned"
    /\ ENDPOINTS' = registry_insert(ENDPOINTS, remote_device_id[s], s)
    /\ conn' = [conn EXCEPT ![s] = "done"]
    /\ UNCHANGED <<remote_device_id, reader, writer>>
    /\ UNCHANGED <<muxVars, callVars, writerVars, readerVars>>
    /\ UNCHANGED extVars

NextReg ==
    \/ \E s \in Sessions : \E p \in PeerIds : \E ok \in BOOLEAN : ConnectBegin(s, p, ok)
    \/ \E s \in Sessions : \E resp \in HandshakeResponses : ConnectHandshake(s, resp)
    \/ \E s \in Sessions : ConnectServeWriter(s)
    \/ \E s \in Sessions : ConnectInsert(s)
    \/ \E s \in Sessions : \E cause \in ReaderCauses : ReaderBreak(s, cause)
    \/ \E s \in Sessions : ReaderRemove(s)
    \/ \E s \in Sessions : WriterQueueClosed(s)
    \/ \E s \in Sessions : WriterRemove(s)

SpecReg == InitReg /\ [][NextReg]_vars

\* The steps that the program takes by itself are taken: connect() runs on
\* once the handshake byte is in, a task that left its loop runs to its end,
\* and recv() on a closed empty channel returns. Whether and when the peer
\* answers, closes the stream or sends a bad frame is up to the peer.
FairSpecReg ==
    /\ SpecReg
    /\ \A s \in Sessions : WF_vars(ConnectServeWriter(s))
    /\ \A s \in Sessions : WF_vars(ConnectInsert(s))
    /\ \A s \in Sessions : WF_vars(ReaderRemove(s))
    /\ \A s \in Sessions : WF_vars(WriterQueueClosed(s))
    /\ \A s \in Sessions : WF_vars(WriterRemove(s))

\* The registry entry under the session's remote_device_id is this session.
Registered(s) == ENDPOINTS[remote_device_id[s]] = s

\* A spawned task that has not run to its end.
TaskAlive(st) == st \in {"running", "broke"}

\* -------------------------------------------------------------- SpecPipe
\* Session S0 on the side that is asked for media: the handler task of
\* StartMediaTransmissionRequest, the capture and encode processes it starts,
\* the decode and render processes of start_video_render, the exit channel
\* they share, and the reader and writer tasks.

\* The call_id the peer put into its Request.
MediaRequestCallId == 0

\* serve_reader hands the Request to a spawned handle_message task.
MediaRequestRecv ==
    /\ reader[S0] = "running"
    /\ media_handler = "idle"
    /\ media_handler' = "spawned"
    /\ UNCHANGED <<exit_chan, pipe, npushed, capture_frame_q>>
    /\ UNCHANGED <<muxVars, callVars, writerVars, readerVars, regVars, mediaVars, moreVars>>

\* handle_call_message: endpoint.reply(call_id, resp_message), i.e. send() of a
\* Response; a failed send is logged and nothing else happens.
Reply(queue, id) ==
    IF CanSend THEN Append(queue, Packet("Response", id)) ELSE queue

\* start_video_capture up to start_desktop_capture_process: the monitor is
\* looked up and the capture process is spawned, or the handler returns Err
\* and the Error message is replied.
StartCapture(ok) ==
    /\ media_handler = "spawned"
    /\ IF ok
          THEN /\ pipe' = [pipe EXCEPT !["capture"] = "running"]
               /\ media_handler' = "capture_started"
               /\ UNCHANGED packet_queue
          ELSE /\ packet_queue' = Reply(packet_queue, MediaRequestCallId)
               /\ media_handler' = "failed"
               /\ UNCHANGED pipe
    /\ UNCHANGED <<exit_chan, npushed, capture_frame_q>>
    /\ UNCHANGED <<atomic_call_id, call_reply_tx_map>>
    /\ UNCHANGED <<callVars, writerVars, readerVars, regVars, mediaVars, moreVars>>

\* start_video_encode_process(.., capture_frame_rx, self.packet_tx.clone()):
\* the encode process is spawned, or the handler returns Err, which drops
\* capture_frame_rx, and the Error message is replied.
StartEncode(ok) ==
    /\ media_handler = "capture_started"
    /\ IF ok
          THEN /\ pipe' = [pipe EXCEPT !["encode"] = "running"]
               /\ media_handler' = "encode_started"
               /\ UNCHANGED packet_queue
          ELSE /\ packet_queue' = Reply(packet_queue, MediaRequestCallId)
               /\ media_handler' = "failed"
               /\ UNCHANGED pipe
    /\ UNCHANGED <<exit_chan, npushed, capture_frame_q>>
    /\ UNCHANGED <<atomic_call_id, call_reply_tx_map>>
    /\ UNCHANGED <<callVars, writerVars, readerVars, regVars, mediaVars, moreVars>>

\* The handler returns Ok(reply) and handle_call_message replies the Response.
HandlerReply ==
    /\ media_handler = "encode_started"
    /\ packet_queue' = Reply(packet_queue, MediaRequestCallId)
    /\ media_handler' = "ok"
    /\ UNCHANGED <<exit_chan, pipe, npushed, capture_frame_q>>
    /\ UNCHANGED <<atomic_call_id, call_reply_tx_map>>
    /\ UNCHANGED <<callVars, writerVars, readerVars, regVars, mediaVars, moreVars>>

\* A process that took one message out of the exit channel and returns:
\* defer! { let _ = exit_tx.send(()); } puts one back.
ExitNoRelay(n) == n - 1

ExitRelay(n) == (n - 1) + 1

\* capture process, select! biased: exit_rx.recv() is ready => return.
CaptureObserveExit ==
    /\ pipe["capture"] = "running"
    /\ exit_chan > 0
    /\ exit_chan' = ExitRelay(exit_chan)
    /\ pipe' = [pipe EXCEPT !["capture"] = "exited"]
    /\ UNCHANGED <<media_handler, npushed, capture_frame_q>>
    /\ UNCHANGED <<muxVars, callVars, writerVars, readerVars, regVars, mediaVars, moreVars>>

\* capture_frame_rx is held by the handler until the encode process gets it.
CaptureRxAlive ==
    \/ media_handler = "capture_started"
    \/ pipe["encode"] = "running"

CaptureOutcomes == {"frame", "capture_err"}

\* What one tick of the capture loop meets: duplicator.capture() fails, or
\* capture_frame_tx.try_send(frame) is Ok, Err(Full) or Err(Disconnected).
TrySendResult(outcome) ==
    IF outcome = "capture_err" THEN "capture_err"
    ELSE IF ~CaptureRxAlive THEN "disconnected"
    ELSE IF capture_frame_q < CaptureQueueCapacity THEN "sent"
    ELSE "full"

\* A capture loop whose select! takes the tick although exit_rx is ready.
CaptureFrameUnbiased(outcome) ==
    /\ pipe["capture"] = "running"
    /\ capture_last' = TrySendResult(outcome)
    /\ IF TrySendResult(outcome) = "sent"
          THEN /\ capture_frame_q' = capture_frame_q + 1
               /\ UNCHANGED <<pipe, exit_chan>>
          ELSE /\ pipe' = [pipe EXCEPT !["capture"] = "exited"]
               /\ exit_chan' = exit_chan + 1
               /\ UNCHANGED capture_frame_q
    /\ UNCHANGED <<media_handler, npushed>>
    /\ UNCHANGED <<audioVars, read_result, handshake_response_buf, download, libVars>>
    /\ UNCHANGED <<muxVars, callVars, writerVars, readerVars, regVars, mediaVars>>

\* capture process, interval.tick(): duplicator.capture() and
\* capture_frame_tx.try_send(frame). A capture error and a failed try_send
\* (channel full or disconnected) both return, and the deferred block sends
\* on exit_tx.
CaptureFrame(outcome) ==
    /\ pipe["capture"] = "running"
    /\ exit_chan = 0
    /\ capture_last' = TrySendResult(outcome)
    /\ IF TrySendResult(outcome) = "sent"
          THEN /\ capture_frame_q' = capture_frame_q + 1
               /\ UNCHANGED <<pipe, exit_chan>>
          ELSE /\ pipe' = [pipe EXCEPT !["capture"] = "exited"]
               /\ exit_chan' = exit_chan + 1
               /\ UNCHANGED capture_frame_q
    /\ UNCHANGED <<media_handler, npushed>>
    /\ UNCHANGED <<audioVars, read_result, handshake_response_buf, download, libVars>>
    /\ UNCHANGED <<muxVars, callVars, writerVars, readerVars, regVars, mediaVars>>

\* encode process: it finds a message in the exit channel between two
\* frames and returns.
EncodeObserveExit ==
    /\ pipe["encode"] = "running"
    /\ exit_chan > 0
    /\ exit_chan' = ExitRelay(exit_chan)
    /\ pipe' = [pipe EXCEPT !["encode"] = "exited"]
    /\ UNCHANGED <<media_handler, npushed, capture_frame_q>>
    /\ UNCHANGED <<muxVars, callVars, writerVars, readerVars, regVars, mediaVars, moreVars>>

EncodeOutcomes == {"encoded", "encode_err"}

\* encode process: one raw frame is taken and encoded; the VideoFrame is
\* submitted as a Push through the process's clone of packet_tx. An encoder
\* error returns, and the deferred block sends on exit_tx.
EncodeFrame(outcome) ==
    /\ pipe["encode"] = "running"
    /\ capture_frame_q > 0
    /\ npushed < MaxPushes
    /\ capture_frame_q' = capture_frame_q - 1
    /\ IF outcome = "encoded"
          THEN /\ IF CanSend
                     THEN /\ packet_queue' = Append(packet_queue, Packet("Push", NoCallId))
                          /\ npushed' = npushed + 1
                     ELSE UNCHANGED <<packet_queue, npushed>>
               /\ UNCHANGED <<exit_chan, pipe>>
          ELSE /\ pipe' = [pipe EXCEPT !["encode"] = "exited"]
               /\ exit_chan' = exit_chan + 1
               /\ UNCHANGED <<packet_queue, npushed>>
    /\ UNCHANGED media_handler
    /\ UNCHANGED <<atomic_call_id, call_reply_tx_map>>
    /\ UNCHANGED <<callVars, writerVars, readerVars, regVars, mediaVars, moreVars>>

\* encode process: the capture process is gone and its channel is empty.
EncodeInputClosed ==
    /\ pipe["encode"] = "running"
    /\ pipe["capture"] = "exited"
    /\ capture_frame_q = 0
    /\ pipe' = [pipe EXCEPT !["encode"] = "exited"]
    /\ exit_chan' = exit_chan + 1
    /\ UNCHANGED <<media_handler, npushed, capture_frame_q>>
    /\ UNCHANGED <<muxVars, callVars, writerVars, readerVars, regVars, mediaVars, moreVars>>

\* start_video_render: the decode process and the render thread are started
\* and video_frame_tx is set.
StartVideoRender ==
    /\ ENDPOINTS[remote_device_id[S0]] = S0
    /\ pipe["decode"] = "none"
    /\ pipe' = [pipe EXCEPT !["decode"] = "running", !["render"] = "running"]
    /\ video_frame_tx' = "set"
    /\ UNCHANGED <<exit_chan, media_handler, npushed, capture_frame_q>>
    /\ UNCHANGED <<video_frame_queue, nframes, mouse_dispatched>>
    /\ UNCHANGED <<muxVars, callVars, writerVars, readerVars, regVars, moreVars>>

\* decode process: it finds a message in the exit channel between two
\* frames and returns, which drops decoded_frame_tx.
DecodeObserveExit ==
    /\ pipe["decode"] = "running"
    /\ exit_chan > 0
    /\ exit_chan' = ExitRelay(exit_chan)
    /\ pipe' = [pipe EXCEPT !["decode"] = "exited"]
    /\ UNCHANGED <<media_handler, npushed, capture_frame_q>>
    /\ UNCHANGED <<muxVars, callVars, writerVars, readerVars, regVars, mediaVars, moreVars>>

\* render thread: decoded_video_frame_rx.recv() is Err, "video decoded
\* channel is closed", break.
RenderClosed ==
    /\ pipe["render"] = "running"
    /\ pipe["decode"] = "exited"
    /\ pipe' = [pipe EXCEPT !["render"] = "exited"]
    /\ UNCHANGED <<exit_chan, media_handler, npushed, capture_frame_q>>
    /\ UNCHANGED <<muxVars, callVars, writerVars, readerVars, regVars, mediaVars, moreVars>>

NextPipe ==
    \/ MediaRequestRecv
    \/ \E ok \in BOOLEAN : StartCapture(ok)
    \/ \E ok \in BOOLEAN : StartEncode(ok)
    \/ HandlerReply
    \/ CaptureObserveExit
    \/ \E o \in CaptureOutcomes : CaptureFrame(o)
    \/ EncodeObserveExit
    \/ \E o \in EncodeOutcomes : EncodeFrame(o)
    \/ EncodeInputClosed
    \/ StartVideoRender
    \/ DecodeObserveExit
    \/ RenderClosed
    \/ \E o \in WriterOutcomes : WriterStep(o)
    \/ WriterQueueClosed(S0)
    \/ WriterRemove(S0)
    \/ \E cause \in ReaderCauses : ReaderBreak(S0, cause)
    \/ ReaderRemove(S0)

SpecPipe == Init /\ [][NextPipe]_vars

\* The steps the program takes by itself are taken: the handler task runs
\* on, a process that polls the exit channel finds a message that is there,
\* the encoder handles a frame it was given, the writer handles a packet it
\* was given, and a task that left its loop runs to its end. Whether the
\* peer sends, whether the socket fails and whether the screen yields a
\* frame is not up to the program.
FairSpecPipe ==
    /\ SpecPipe
    /\ WF_vars(\E ok \in BOOLEAN : StartCapture(ok))
    /\ WF_vars(\E ok \in BOOLEAN : StartEncode(ok))
    /\ WF_vars(HandlerReply)
    /\ WF_vars(CaptureObserveExit)
    /\ WF_vars(EncodeObserveExit)
    /\ WF_vars(\E o \in EncodeOutcomes : EncodeFrame(o))
    /\ WF_vars(EncodeInputClosed)
    /\ WF_vars(DecodeObserveExit)
    /\ WF_vars(RenderClosed)
    /\ WF_vars(\E o \in WriterOutcomes : WriterStep(o))
    /\ WF_vars(WriterQueueClosed(S0))
    /\ WF_vars(WriterRemove(S0))
    /\ WF_vars(ReaderRemove(S0))

\* ============================================== SpecMedia: inbound pushes
\* The viewing side of an established session: start_video_render has run,
\* the peer pushes VideoFrames and MouseEventFrames, and the decode process
\* is slow. A push is named by its place in the order in which the reader
\* received it.
PushKinds == {"VideoFrame", "MouseEventFrame"}

PushTask(kind, seq) ==
    [typ |-> "Push", call_id |-> NoCallId, kind |-> kind, seq |-> seq]

\* The pushes received before the first state: VideoFrames, all handled and
\* none taken by the decode process yet.
Preloaded == VideoFrameCapacity - 1

InitMedia ==
    /\ InitEstablished
    /\ packet_queue = << >>
    /\ exit_chan = 0
    /\ pipe = [t \in PipeTasks |->
                 IF t \in {"decode", "render"} THEN "running" ELSE "none"]
    /\ media_handler = "idle"
    /\ npushed = 0
    /\ capture_frame_q = 0
    /\ video_frame_tx = "set"
    /\ video_frame_queue = [i \in 1..Preloaded |-> i]
    /\ nframes = 0
    /\ mouse_dispatched = << >>
    /\ audio_frame_tx = "unset"
    /\ audio_frame_queue = << >>
    /\ capture_last = "none"
    /\ read_result = "none"
    /\ download = [t \in TransferIds |-> NoDownload]
    /\ video_decoder = NewVideoDecoder
    /\ video_capture = NoVideoCapture
    /\ video_render = NoVideoRender

\* serve_reader: a Push packet was read, opened and deserialized, and
\*   TOKIO_RUNTIME.spawn(async move { handle_message(endpoint, packet).await; });
ReaderRecvPush(kind) ==
    /\ reader[S0] = "running"
    /\ nframes < MaxFrames
    /\ BagCardinality(tasks) < MaxInflight
    /\ nframes' = nframes + 1
    /\ tasks' = tasks (+) SetToBag({PushTask(kind, Preloaded + nframes + 1)})
    /\ UNCHANGED <<dropped, video_frame_tx, video_frame_queue, mouse_dispatched>>
    /\ UNCHANGED <<muxVars, callVars, writerVars, regVars, pipeVars, moreVars>>

\* An enqueue that does not look at video_frame_tx.
enqueue_video_frame_unchecked(queue, frame) ==
    IF Len(queue) < VideoFrameCapacity
       THEN Append(queue, frame)
       ELSE queue

\* enqueue_video_frame: tx.try_send(video_frame) if video_frame_tx is set; on
\* a full channel the frame is not enqueued and a warning is logged.
enqueue_video_frame(queue, frame) ==
    IF video_frame_tx = "set" /\ Len(queue) < VideoFrameCapacity
       THEN Append(queue, frame)
       ELSE queue

\* handle_message on a Push(VideoFrame): handle_video_frame hands the frame
\* to enqueue_video_frame.
HandleVideoFrame(t) ==
    /\ BagIn(t, tasks)
    /\ t.kind = "VideoFrame"
    /\ tasks' = tasks (-) SetToBag({t})
    /\ video_frame_queue' = enqueue_video_frame(video_frame_queue, t.seq)
    /\ UNCHANGED <<dropped, video_frame_tx, nframes, mouse_dispatched>>
    /\ UNCHANGED <<muxVars, callVars, writerVars, regVars, pipeVars, moreVars>>

\* handle_message on a Push(MouseEventFrame): handle_mouse_event_frame
\* dispatches the event.
HandleMouseEventFrame(t) ==
    /\ BagIn(t, tasks)
    /\ t.kind = "MouseEventFrame"
    /\ tasks' = tasks (-) SetToBag({t})
    /\ mouse_dispatched' = Append(mouse_dispatched, t.seq)
    /\ UNCHANGED <<dropped, video_frame_tx, video_frame_queue, nframes>>
    /\ UNCHANGED <<muxVars, callVars, writerVars, regVars, pipeVars, moreVars>>

\* decode process: video_frame_rx.recv() takes the oldest frame.
DecodeTake ==
    /\ pipe["decode"] = "running"
    /\ video_frame_queue # << >>
    /\ video_frame_queue' = Tail(video_frame_queue)
    /\ UNCHANGED <<dropped, tasks, video_frame_tx, nframes, mouse_dispatched>>
    /\ UNCHANGED <<muxVars, callVars, writerVars, regVars, pipeVars, moreVars>>

NextMedia ==
    \/ \E kind \in PushKinds : ReaderRecvPush(kind)
    \/ \E t \in BagToSet(tasks) : HandleVideoFrame(t)
    \/ \E t \in BagToSet(tasks) : HandleMouseEventFrame(t)
    \/ DecodeTake

SpecMedia == InitMedia /\ [][NextMedia]_vars

\* =============================== SpecNego: pushes around pipeline set-up
\* The viewing side of a session that has not started its render and play
\* pipelines yet: the peer's VideoFrames and AudioFrames arrive before,
\* while and after start_video_render and start_audio_play run.
MediaKinds == {"VideoFrame", "AudioFrame"}

\* start_audio_play: the decode and play processes are started and
\* audio_frame_tx is set.
StartAudioPlay ==
    /\ ENDPOINTS[remote_device_id[S0]] = S0
    /\ audio_frame_tx = "unset"
    /\ audio_frame_tx' = "set"
    /\ UNCHANGED <<audio_frame_queue, capture_last, read_result,
                   handshake_response_buf, download, libVars>>
    /\ UNCHANGED <<muxVars, callVars, writerVars, readerVars, regVars,
                   pipeVars, mediaVars>>

\* enqueue_audio_frame: tx.try_send(audio_frame) if audio_frame_tx is set; on
\* a full channel the frame is not enqueued and a warning is logged.
enqueue_audio_frame(queue, frame) ==
    IF audio_frame_tx = "set" /\ Len(queue) < AudioFrameCapacity
       THEN Append(queue, frame)
       ELSE queue

\* handle_message on a Push(AudioFrame): handle_audio_frame hands the frame
\* to enqueue_audio_frame.
HandleAudioFrame(t) ==
    /\ BagIn(t, tasks)
    /\ t.kind = "AudioFrame"
    /\ tasks' = tasks (-) SetToBag({t})
    /\ audio_frame_queue' = enqueue_audio_frame(audio_frame_queue, t.seq)
    /\ UNCHANGED <<audio_frame_tx, capture_last, read_result,
                   handshake_response_buf, download, libVars>>
    /\ UNCHANGED <<dropped, muxVars, callVars, writerVars, regVars,
                   pipeVars, mediaVars>>

NextNego ==
    \/ StartVideoRender
    \/ StartAudioPlay
    \/ \E kind \in MediaKinds : ReaderRecvPush(kind)
    \/ \E t \in BagToSet(tasks) : HandleVideoFrame(t)
    \/ \E t \in BagToSet(tasks) : HandleAudioFrame(t)
    \/ DecodeTake

SpecNego == Init /\ [][NextNego]_vars

\* =================================================== SpecReq: Requests in
\* The session answering the peer's Requests while its writer does not get
\* to pop: all but two places of the outbound queue are taken by Push
\* envelopes that send() accepted.
InitReq ==
    /\ InitEstablished
    /\ InitNoMedia
    /\ packet_queue = [i \in 1..(PacketQueueCapacity - 2) |-> Packet("Push", NoCallId)]

\* The Request variants handle_message has an arm for, and any other one.
HandledKinds == {"GetDisplayInfoRequest", "StartMediaTransmissionRequest"}
RequestKinds == HandledKinds \cup {"OtherRequest"}

\* A Request packet in its handle_message task; result is what its handler
\* returned, once it has.
RequestTask(kind, id) ==
    [typ |-> "Request", call_id |-> id, kind |-> kind, result |-> "pending"]

\* A reader that awaits handle_message itself: it takes no further frame
\* while the handler of a Request has not returned.
ReaderRecvRequestAwaited(kind, id) ==
    /\ reader[S0] = "running"
    /\ nframes < MaxFrames
    /\ BagCardinality(tasks) < MaxInflight
    /\ \A t \in BagToSet(tasks) : ~(t.typ = "Request" /\ t.result = "pending")
    /\ nframes' = nframes + 1
    /\ tasks' = tasks (+) SetToBag({RequestTask(kind, id)})
    /\ UNCHANGED <<dropped, video_frame_tx, video_frame_queue, mouse_dispatched>>
    /\ UNCHANGED <<muxVars, callVars, writerVars, regVars, pipeVars, moreVars>>

\* serve_reader: a Request packet was read, opened and deserialized, and a
\* handle_message task is spawned for it.
ReaderRecvRequest(kind, id) ==
    /\ reader[S0] = "running"
    /\ nframes < MaxFrames
    /\ BagCardinality(tasks) < MaxInflight
    /\ nframes' = nframes + 1
    /\ tasks' = tasks (+) SetToBag({RequestTask(kind, id)})
    /\ UNCHANGED <<dropped, video_frame_tx, video_frame_queue, mouse_dispatched>>
    /\ UNCHANGED <<muxVars, callVars, writerVars, regVars, pipeVars, moreVars>>

\* handle_call_message: call_id is Some and $handler(endpoint, req).await
\* returns Ok(resp) or Err(err).
HandlerReturn(t, ok) ==
    /\ BagIn(t, tasks)
    /\ t.kind \in HandledKinds
    /\ t.call_id # NoCallId
    /\ t.result = "pending"
    /\ tasks' = (tasks (-) SetToBag({t}))
                 (+) SetToBag({[t EXCEPT !.result = IF ok THEN "ok" ELSE "err"]})
    /\ UNCHANGED <<dropped, muxVars, callVars, writerVars, regVars, extVars>>

\* resp_message: $resp_type(resp) for Ok(resp), EndPointMessage::Error for Err.
ResponseMessage(t) ==
    IF t.result = "err" THEN "Error"
    ELSE IF t.kind = "GetDisplayInfoRequest" THEN "GetDisplayInfoResponse"
    ELSE "StartMediaTransmissionResponse"

\* A reply whose packet has call_id: None.
ResponsePacketNoId(id, message) ==
    [typ |-> "Response", call_id |-> NoCallId, message |-> message]

\* EndPoint::reply: the packet { typ: Response, call_id: Some(call_id), message }.
ResponsePacket(id, message) ==
    [typ |-> "Response", call_id |-> id, message |-> message]

\* handle_call_message: endpoint.reply(call_id, resp_message); an Err of the
\* send is logged and the task ends.
HandleCallMessageReply(t) ==
    /\ BagIn(t, tasks)
    /\ t.result \in {"ok", "err"}
    /\ tasks' = tasks (-) SetToBag({t})
    /\ packet_queue' =
          IF CanSend
             THEN Append(packet_queue, ResponsePacket(t.call_id, ResponseMessage(t)))
             ELSE packet_queue
    /\ UNCHANGED <<dropped, atomic_call_id, call_reply_tx_map>>
    /\ UNCHANGED <<callVars, writerVars, regVars, extVars>>

\* handle_message on a Request variant without an arm, or handle_call_message
\* on call_id None: an error is logged and the task ends.
HandleUnserved(t) ==
    /\ BagIn(t, tasks)
    /\ t.result = "pending"
    /\ t.kind \notin HandledKinds \/ t.call_id = NoCallId
    /\ tasks' = tasks (-) SetToBag({t})
    /\ UNCHANGED <<dropped, muxVars, callVars, writerVars, regVars, extVars>>

\* A function made by make_endpoint_push: send() of the packet
\* { typ: Push, call_id: None, message }; Err is returned to the caller.
SendPush ==
    /\ ENDPOINTS[remote_device_id[S0]] = S0
    /\ npushed < MaxPushes
    /\ CanSend
    /\ packet_queue' = Append(packet_queue, Packet("Push", NoCallId))
    /\ npushed' = npushed + 1
    /\ UNCHANGED <<exit_chan, pipe, media_handler, capture_frame_q>>
    /\ UNCHANGED <<atomic_call_id, call_reply_tx_map>>
    /\ UNCHANGED <<callVars, writerVars, readerVars, regVars, mediaVars, moreVars>>

RequestCallIds == {NoCallId, MediaRequestCallId}

NextReq ==
    \/ \E kind \in RequestKinds : \E id \in RequestCallIds : ReaderRecvRequest(kind, id)
    \/ \E t \in BagToSet(tasks) : \E ok \in BOOLEAN : HandlerReturn(t, ok)
    \/ \E t \in BagToSet(tasks) : HandleCallMessageReply(t)
    \/ \E t \in BagToSet(tasks) : HandleUnserved(t)

SpecReq == InitReq /\ [][NextReq]_vars

\* ------------------------------------------------------------- SpecOps
\* Every way an envelope gets into the outbound queue of the session: its
\* callers' call(), the push functions, and the replies to the peer's
\* Requests.
NextOps ==
    \/ \E c \in Callers : CallStart(c)
    \/ \E c \in Callers : CallRegister(c)
    \/ \E c \in Callers : CallSend(c)
    \/ \E c \in Callers : CallTimeout(c)
    \/ \E c \in Callers : CallDefer(c)
    \/ SendPush
    \/ ReaderRecvRequest("GetDisplayInfoRequest", MediaRequestCallId)
    \/ \E t \in BagToSet(tasks) : \E ok \in BOOLEAN : HandlerReturn(t, ok)
    \/ \E t \in BagToSet(tasks) : HandleCallMessageReply(t)

SpecOps == InitReq /\ [][NextOps]_vars

\* --------------------------------------------------------- SpecDispatch
\* The reader of the session receiving Requests, Responses and Pushes in any
\* order, and the handle_message tasks it spawned running in any order.
TasksOfType(typ) == {t \in BagToSet(tasks) : t.typ = typ}

NextDispatch ==
    \/ \E kind \in HandledKinds : ReaderRecvRequest(kind, MediaRequestCallId)
    \/ \E id \in ResponseIds : ReaderRecv(id)
    \/ \E kind \in PushKinds : ReaderRecvPush(kind)
    \/ \E t \in TasksOfType("Request") : \E ok \in BOOLEAN : HandlerReturn(t, ok)
    \/ \E t \in TasksOfType("Request") : HandleCallMessageReply(t)
    \/ \E t \in TasksOfType("Response") : HandleMessage(t)
    \/ \E t \in TasksOfType("Push") : HandleVideoFrame(t)
    \/ \E t \in TasksOfType("Push") : HandleMouseEventFrame(t)

SpecDispatch == Init /\ [][NextDispatch]_vars

\* ================================================ SpecRead: reader loop
\* The reader task of session S0 turn by turn, with what each turn met, and
\* the handle_message tasks it spawned.

\* What one turn of the loop meets: stream.next() is None ("closed"), is an
\* io error ("read_err") or the codec's error for a frame longer than
\* max_frame_length(16 * 1024 * 1024) ("too_long"); open_in_place fails;
\* deserialize fails; or the frame yields a packet.
ReadOutcomes ==
    {"closed", "read_err", "too_long", "decrypt_err", "deserialize_err", "packet"}

\* A loop that goes on after a frame that does not open.
BreaksExceptDecrypt(outcome) == outcome \notin {"packet", "decrypt_err"}

\* Every arm of the loop body but the one that yields a packet ends in break.
Breaks(outcome) == outcome # "packet"

\* One turn of the reader loop: break, or the packet (here a Push of the
\* given kind) is moved into a freshly spawned handle_message task.
ReaderTurn(outcome, kind) ==
    /\ reader[S0] = "running"
    /\ nframes < MaxFrames
    /\ BagCardinality(tasks) < MaxInflight
    /\ read_result' = outcome
    /\ nframes' = nframes + 1
    /\ IF Breaks(outcome)
          THEN /\ reader' = [reader EXCEPT ![S0] = "broke"]
               /\ UNCHANGED tasks
          ELSE /\ tasks' = IF outcome = "packet"
                              THEN tasks (+) SetToBag({PushTask(kind,
                                                               Preloaded + nframes + 1)})
                              ELSE tasks
               /\ UNCHANGED reader
    /\ UNCHANGED <<ENDPOINTS, conn, remote_device_id, writer>>
    /\ UNCHANGED <<dropped, video_frame_tx, video_frame_queue, mouse_dispatched>>
    /\ UNCHANGED <<audioVars, capture_last, handshake_response_buf, download, libVars>>
    /\ UNCHANGED <<muxVars, callVars, writerVars, pipeVars>>

NextRead ==
    \/ \E outcome \in ReadOutcomes : \E kind \in PushKinds : ReaderTurn(outcome, kind)
    \/ ReaderRemove(S0)
    \/ \E t \in BagToSet(tasks) : HandleMouseEventFrame(t)
    \/ \E t \in BagToSet(tasks) : HandleVideoFrame(t)
    \/ WriterQueueClosed(S0)
    \/ WriterRemove(S0)

SpecRead == Init /\ [][NextRead]_vars

\* ================================================ SpecDl: file download
\* Session S0 serving the peer's DownloadFileRequests, one per transfer id:
\* the handler, the reply that its caller sends once the handler has
\* returned, and the transfer task the handler spawns. download[t].sent
\* lists, in order, what was handed to the send stream for transfer t;
\* download[t].slept counts the seconds its transfer task has slept.

\* tokio::time::sleep(Duration::from_secs(1))
SettleDelay == 1

\* handle_download_file_request: Err if req.path is not a regular file (or
\* its metadata cannot be read); else the transfer task is spawned and
\* Ok(EndPointDownloadFileReply { size }) is returned. Nothing is awaited in
\* the handler, so spawn and return are one step.
DownloadRequest(t, is_file) ==
    /\ reader[S0] = "running"
    /\ download[t].handler = "idle"
    /\ download' = IF is_file
                      THEN [download EXCEPT ![t].handler = "returned_ok",
                                            ![t].task = "sleeping"]
                      ELSE [download EXCEPT ![t].handler = "returned_err"]
    /\ UNCHANGED <<muxVars, callVars, writerVars, readerVars, regVars>>
    /\ UNCHANGED <<pipeVars, mediaVars, audioVars, capture_last, read_result,
                   handshake_response_buf, libVars>>

\* The caller of the handler sends the Response: the reply for Ok, the Error
\* message for Err.
DownloadReply(t) ==
    /\ download[t].handler \in {"returned_ok", "returned_err"}
    /\ download' = [download EXCEPT
                      ![t].handler = "replied",
                      ![t].sent = Append(@, IF download[t].handler = "returned_ok"
                                               THEN "DownloadFileReply" ELSE "Error")]
    /\ UNCHANGED <<muxVars, callVars, writerVars, readerVars, regVars>>
    /\ UNCHANGED <<pipeVars, mediaVars, audioVars, capture_last, read_result,
                   handshake_response_buf, libVars>>

\* One second passes for every sleeping transfer task. The call returns its
\* reply immediately: no second passes between a handler's return and its
\* Response being sent.
SecondPasses ==
    /\ \E t \in TransferIds :
          download[t].task = "sleeping" /\ download[t].slept < SettleDelay
    /\ \A t \in TransferIds :
          download[t].handler \notin {"returned_ok", "returned_err"}
    /\ download' = [t \in TransferIds |->
                      IF download[t].task = "sleeping" /\ download[t].slept < SettleDelay
                         THEN [download[t] EXCEPT !.slept = @ + 1]
                         ELSE download[t]]
    /\ UNCHANGED <<muxVars, callVars, writerVars, readerVars, regVars>>
    /\ UNCHANGED <<pipeVars, mediaVars, audioVars, capture_last, read_result,
                   handshake_response_buf, libVars>>

\* A transfer task that starts sending without the sleep.
TransferWakeNoSleep(t) ==
    /\ download[t].task = "sleeping"
    /\ download' = [download EXCEPT ![t].task = "sending"]
    /\ UNCHANGED <<muxVars, callVars, writerVars, readerVars, regVars>>
    /\ UNCHANGED <<pipeVars, mediaVars, audioVars, capture_last, read_result,
                   handshake_response_buf, libVars>>

\* sleep(1 s).await returns and send_file_to_remote starts.
TransferWake(t) ==
    /\ download[t].task = "sleeping"
    /\ download[t].slept = SettleDelay
    /\ download' = [download EXCEPT ![t].task = "sending"]
    /\ UNCHANGED <<muxVars, callVars, writerVars, readerVars, regVars>>
    /\ UNCHANGED <<pipeVars, mediaVars, audioVars, capture_last, read_result,
                   handshake_response_buf, libVars>>

\* What send_file_to_remote meets at one block of the file.
BlockOutcomes == {"block", "last_block", "read_err"}

\* A transfer task that keeps streaming after it has reported the failure.
TransferSendOn(t, outcome) ==
    /\ download[t].task = "sending"
    /\ outcome = "block" => Len(download[t].sent) < MaxFrames
    /\ download' = [download EXCEPT
                      ![t].task = IF outcome = "last_block" THEN "done" ELSE "sending",
                      ![t].sent = Append(@, IF outcome = "read_err"
                                               THEN "FileTransferError" ELSE "payload")]
    /\ UNCHANGED <<muxVars, callVars, writerVars, readerVars, regVars>>
    /\ UNCHANGED <<pipeVars, mediaVars, audioVars, capture_last, read_result,
                   handshake_response_buf, libVars>>

\* send_file_to_remote sends the file block by block; when it returns Err the
\* task sends FileTransferError { id }.
TransferSend(t, outcome) ==
    /\ download[t].task = "sending"
    /\ outcome = "block" => Len(download[t].sent) < MaxFrames
    /\ download' = [download EXCEPT
                      ![t].task = IF outcome = "block" THEN "sending" ELSE "done",
                      ![t].sent = Append(@, IF outcome = "read_err"
                                               THEN "FileTransferError" ELSE "payload")]
    /\ UNCHANGED <<muxVars, callVars, writerVars, readerVars, regVars>>
    /\ UNCHANGED <<pipeVars, mediaVars, audioVars, capture_last, read_result,
                   handshake_response_buf, libVars>>

NextDl ==
    \/ \E t \in TransferIds : \E is_file \in BOOLEAN : DownloadRequest(t, is_file)
    \/ \E t \in TransferIds : DownloadReply(t)
    \/ SecondPasses
    \/ \E t \in TransferIds : TransferWake(t)
    \/ \E t \in TransferIds : \E outcome \in BlockOutcomes : TransferSend(t, outcome)
    \/ \E cause \in ReaderCauses : ReaderBreak(S0, cause)
    \/ ReaderRemove(S0)

SpecDl == Init /\ [][NextDl]_vars

\* ================================================ SpecDec: VideoDecoder
\* One VideoDecoder: open() and decode() called in any order.

\* What avcodec_open2 returns to open(): 0 or an error code.
OpenOutcomes == {"opened", "open_failed"}

\* An open() that does not look at output_tx.
openUnchecked(outcome) ==
    /\ video_decoder.opens < MaxFrames
    /\ video_decoder' =
         IF outcome = "open_failed"
            THEN [video_decoder EXCEPT !.opens = @ + 1, !.open_result = "open_failed"]
            ELSE [video_decoder EXCEPT !.opens = @ + 1, !.open_result = "rx",
                                       !.output_tx = video_decoder.opens + 1,
                                       !.output = << >>]
    /\ UNCHANGED <<muxVars, callVars, writerVars, readerVars, regVars>>
    /\ UNCHANGED <<pipeVars, mediaVars, audioVars, capture_last, read_result,
                   handshake_response_buf, download, video_capture, video_render>>

\* VideoDecoder::open: "video decoder already opened" if output_tx is Some;
\* else avcodec_open2, whose failure is returned with output_tx still None;
\* else a new channel bounded::<VideoFrame>(600), its Sender kept in
\* output_tx and its Receiver returned.
open(outcome) ==
    /\ video_decoder.opens < MaxFrames
    /\ video_decoder' =
         IF video_decoder.output_tx # 0
            THEN [video_decoder EXCEPT !.opens = @ + 1, !.open_result = "already_opened"]
            ELSE IF outcome = "open_failed"
            THEN [video_decoder EXCEPT !.opens = @ + 1, !.open_result = "open_failed"]
            ELSE [video_decoder EXCEPT !.opens = @ + 1, !.open_result = "rx",
                                       !.output_tx = video_decoder.opens + 1,
                                       !.output = << >>]
    /\ UNCHANGED <<muxVars, callVars, writerVars, readerVars, regVars>>
    /\ UNCHANGED <<pipeVars, mediaVars, audioVars, capture_last, read_result,
                   handshake_response_buf, download, video_capture, video_render>>

\* How one decode() call ends: av_parser_parse2 fails, avcodec_send_packet
\* fails, or the receive loop ends after the codec gave some pictures (by
\* EAGAIN, EOF, an error of avcodec_receive_frame or of the hw transfer).
DecodeOutcomes == {"parse_err", "send_err", "received"}

\* VideoDecoder::decode: packet to the codec, then avcodec_receive_frame in
\* a loop; each picture obtained is logged ("decode finish") and nothing is
\* sent on output_tx. npictures is the number of pictures the loop obtained.
decode(outcome, npictures) ==
    /\ video_decoder.packets < MaxFrames
    /\ outcome = "received" => video_decoder.output_tx # 0
    /\ outcome # "received" => npictures = 0
    /\ video_decoder' = [video_decoder EXCEPT !.packets = @ + 1,
                                              !.pictures = @ + npictures,
                                              !.decode_result = outcome]
    /\ UNCHANGED <<muxVars, callVars, writerVars, readerVars, regVars>>
    /\ UNCHANGED <<pipeVars, mediaVars, audioVars, capture_last, read_result,
                   handshake_response_buf, download, video_capture, video_render>>

NextDec ==
    \/ \E outcome \in OpenOutcomes : open(outcome)
    \/ \E outcome \in DecodeOutcomes : \E npictures \in 0..2 : decode(outcome, npictures)

SpecDec == Init /\ [][NextDec]_vars

\* ============================================ SpecCap: start_video_capture
\* The first start_video_capture call of session S0, for every list of
\* active monitors, requested display id and expected frame rate.

\* The Monitor values get_active_monitors can return: id, is_primary,
\* refresh_rate (width and height go with the id).
Monitors == [id : {1, 2}, is_primary : BOOLEAN, refresh_rate : {30, 60}]

\* The monitor lists: none, one, or two monitors with different ids.
MonitorLists ==
    {<< >>} \cup {<<m>> : m \in Monitors}
            \cup {l \in {<<m, n>> : m, n \in Monitors} : l[1].id # l[2].id}

\* monitors.iter().find(|m| m.id == display_id), or else
\* monitors.iter().find(|m| m.is_primary): the index of the first match, 0
\* for None.
find_monitor(monitors, display_id) ==
    LET First(S) == IF S = {} THEN 0 ELSE CHOOSE i \in S : \A j \in S : i <= j
        byId == First({i \in DOMAIN monitors : monitors[i].id = display_id})
    IN  IF byId # 0 THEN byId
        ELSE First({i \in DOMAIN monitors : monitors[i].is_primary})

\* u8::min
Min(a, b) == IF a <= b THEN a ELSE b

\* start_video_capture(display_id, except_fps): the monitor is looked up;
\* start_desktop_capture_process gets the display_id argument and
\* fps = monitor.refresh_rate.min(except_fps); start_video_encode_process gets
\* the monitor's width and height and fps; self.display_id.set(monitor.id).
\* Each of the two starts can fail, which returns its error.
start_video_capture(monitors, display_id, except_fps, capture_ok, encode_ok) ==
    /\ ENDPOINTS[remote_device_id[S0]] = S0
    /\ video_capture.result = "none"
    /\ LET i == find_monitor(monitors, display_id)
           called == [video_capture EXCEPT !.monitors = monitors,
                                           !.requested = display_id,
                                           !.except_fps = except_fps]
       IN  video_capture' =
             IF i = 0
                THEN [called EXCEPT !.result = "err_no_monitor"]
             ELSE LET fps == Min(monitors[i].refresh_rate, except_fps)
                      chosen == [called EXCEPT !.monitor = monitors[i].id]
                  IN  IF ~capture_ok
                         THEN [chosen EXCEPT !.result = "err_capture"]
                      ELSE IF ~encode_ok
                         THEN [chosen EXCEPT !.result = "err_encode",
                                             !.capture_display = display_id,
                                             !.capture_fps = fps]
                      ELSE [chosen EXCEPT !.result = "ok",
                                          !.capture_display = display_id,
                                          !.capture_fps = fps,
                                          !.encoder_monitor = monitors[i].id,
                                          !.encoder_fps = fps,
                                          !.display_id = monitors[i].id]
    /\ UNCHANGED <<muxVars, callVars, writerVars, readerVars, regVars>>
    /\ UNCHANGED <<pipeVars, mediaVars, audioVars, capture_last, read_result,
                   handshake_response_buf, download, video_decoder, video_render>>

NextCap ==
    \E monitors \in MonitorLists : \E display_id \in {1, 2, 3} :
      \E except_fps \in {24, 60} : \E capture_ok \in BOOLEAN : \E encode_ok \in BOOLEAN :
        start_video_capture(monitors, display_id, except_fps, capture_ok, encode_ok)

SpecCap == Init /\ [][NextCap]_vars

\* ========================================== SpecRender: start_video_render
\* start_video_render called more than once on session S0 while VideoFrame
\* pushes arrive. Pipeline k is the one the k-th successful call started;
\* video_render.received[k] is what its channel video_frame_rx was sent, and
\* video_render.handle is the pipeline whose Sender video_frame_tx holds.

\* A start_video_render that stores the new Sender over the old one.
start_video_render_replacing(decode_ok) ==
    /\ ENDPOINTS[remote_device_id[S0]] = S0
    /\ video_render.calls < MaxFrames
    /\ video_render' =
         IF ~decode_ok
            THEN [video_render EXCEPT !.calls = @ + 1]
            ELSE [video_render EXCEPT
                    !.calls = @ + 1,
                    !.started = @ + 1,
                    !.received = Append(@, << >>),
                    !.handle = video_render.started + 1]
    /\ UNCHANGED <<muxVars, callVars, writerVars, readerVars, regVars>>
    /\ UNCHANGED <<pipeVars, mediaVars, audioVars, capture_last, read_result,
                   handshake_response_buf, download, video_decoder, video_capture>>

\* start_video_render: two new channels; start_video_decode_process, whose
\* error is returned; start_desktop_render_process; then
\*   let _ = self.video_frame_tx.set(video_frame_tx);
\* a OnceCell set, which stores the Sender only if the cell is empty.
start_video_render(decode_ok) ==
    /\ ENDPOINTS[remote_device_id[S0]] = S0
    /\ video_render.calls < MaxFrames
    /\ video_render' =
         IF ~decode_ok
            THEN [video_render EXCEPT !.calls = @ + 1]
            ELSE [video_render EXCEPT
                    !.calls = @ + 1,
                    !.started = @ + 1,
                    !.received = Append(@, << >>),
                    !.handle = IF @ = 0 THEN video_render.started + 1 ELSE @]
    /\ UNCHANGED <<muxVars, callVars, writerVars, readerVars, regVars>>
    /\ UNCHANGED <<pipeVars, mediaVars, audioVars, capture_last, read_result,
                   handshake_response_buf, download, video_decoder, video_capture>>

\* handle_video_frame -> enqueue_video_frame on an incoming VideoFrame push:
\* self.video_frame_tx.get() and tx.try_send(video_frame); nothing is sent
\* when the cell is empty or the channel is full. A frame is written as
\* <<its number, the pipelines started when it arrived>>.
PushVideoFrame ==
    /\ reader[S0] = "running"
    /\ video_render.pushes < MaxFrames
    /\ LET h == video_render.handle
           frame == <<video_render.pushes + 1, video_render.started>>
       IN  video_render' =
             IF h # 0 /\ Len(video_render.received[h]) < VideoFrameCapacity
                THEN [video_render EXCEPT !.pushes = @ + 1,
                                          !.received[h] = Append(@, frame)]
                ELSE [video_render EXCEPT !.pushes = @ + 1]
    /\ UNCHANGED <<muxVars, callVars, writerVars, readerVars, regVars>>
    /\ UNCHANGED <<pipeVars, mediaVars, audioVars, capture_last, read_result,
                   handshake_response_buf, download, video_decoder, video_capture>>

NextRender ==
    \/ \E decode_ok \in BOOLEAN : start_video_render(decode_ok)
    \/ PushVideoFrame

SpecRender == Init /\ [][NextRender]_vars

\* ========================================================= claims C1..C40

\* C1: the frames the writer wrote carry strictly increasing nonces, two
\* consecutive frames differ by exactly 1, and the sealing sequencer has
\* advanced once per envelope that was popped and sealed: while the writer
\* runs, the next frame will carry the nonce after the last one written.
C1_NonceSequence ==
    /\ \A i \in 1..Len(wire) : \A j \in 1..Len(wire) : i < j => wire[i] < wire[j]
    /\ \A i \in 1..(Len(wire) - 1) : wire[i + 1] = wire[i] + 1
    /\ sealing_nonce = nsealed
    /\ (writer[S0] = "running" /\ wire # << >>) => sealing_nonce = wire[Len(wire)] + 1

\* Two frames were written one after the other.
C1_Witness == Len(wire) >= 2

\* C2: a call_id that call() has just taken from the counter is not a key of
\* the pending-calls map, so register_call never replaces a live entry.
C2_NoLiveCallIdReuse ==
    \A c \in Callers : pc[c] = "alloc" => call_id[c] \notin DOMAIN call_reply_tx_map

\* C3: a call that obtained a reply obtained the message of a Response whose
\* envelope carried the call's own call_id, and no oneshot was fulfilled twice.
C3_ReplyMatchesCallId ==
    \A c \in Callers :
        /\ rx[c].st = "value" => rx[c].call_id = call_id[c]
        /\ result[c].kind = "Ok" => result[c].call_id = call_id[c]
        /\ fulfilled[c] <= 1

\* Two calls were outstanding and the Response of the later one came first:
\* it has its reply while the earlier call, whose Request was accepted, still
\* waits; a second handler task is in flight.
C3_Witness ==
    \E c \in Callers : \E d \in Callers :
        /\ call_id[c] < call_id[d]
        /\ pc[c] = "waiting" /\ rx[c].st = "empty"
        /\ pc[d] = "returned" /\ result[d].kind = "Ok"
        /\ BagCardinality(tasks) >= 1

\* C4: once call() has returned, no entry of the map holds the oneshot this
\* caller registered; a call whose send failed returns the send error and
\* was never waiting; a call that was sent and got no reply returns Timeout;
\* a call that was sent and whose oneshot was fulfilled returns the reply.
C4_SlotRemovedOnReturn ==
    \A c \in Callers :
        /\ pc[c] = "returned" =>
              /\ \A k \in DOMAIN call_reply_tx_map : call_reply_tx_map[k] # c
              /\ result[c].kind \in {"Ok", "Timeout", "SendError"}
        /\ pc[c] = "waiting" => accepted[c]
        /\ pc[c] \in {"done", "returned"} =>
              /\ ~accepted[c] <=> result[c].kind = "SendError"
              /\ (accepted[c] /\ fulfilled[c] = 0) <=> result[c].kind = "Timeout"
              /\ (accepted[c] /\ fulfilled[c] = 1) <=> result[c].kind = "Ok"

\* One call returned Timeout and another returned the send error.
C4_Witness ==
    \E c \in Callers : \E d \in Callers :
        /\ pc[c] = "returned" /\ result[c].kind = "Timeout"
        /\ pc[d] = "returned" /\ result[d].kind = "SendError"

\* C5: the handler step that consumes a Response whose call_id is not in the
\* map changes neither the map, the outbound queue, the registry, the reader
\* and writer tasks nor any caller's oneshot or result; and a message reaches
\* a caller's oneshot only in the step that consumes a Response whose call_id
\* is, at that moment, in the map under that caller.
C5_UnmatchedResponseDropped ==
    /\ [][\A t \in BagToSet(tasks) :
            (/\ CopiesIn(t, tasks') < CopiesIn(t, tasks)
             /\ t.call_id \notin DOMAIN call_reply_tx_map)
            => /\ UNCHANGED <<call_reply_tx_map, packet_queue, ENDPOINTS>>
               /\ UNCHANGED <<rx, result, fulfilled, reader, writer>>]_vars
    /\ [][\A c \in Callers :
            (rx'[c].st = "value" /\ rx[c].st # "value")
            => \E t \in BagToSet(tasks) :
                  /\ CopiesIn(t, tasks') = CopiesIn(t, tasks) - 1
                  /\ t.call_id = rx'[c].call_id
                  /\ t.call_id \in DOMAIN call_reply_tx_map
                  /\ call_reply_tx_map[t.call_id] = c]_vars

\* A call timed out, its late Response was dropped, and the reader still runs.
C5_Witness ==
    /\ dropped
    /\ reader[S0] = "running"
    /\ \E c \in Callers : pc[c] = "returned" /\ result[c].kind = "Timeout"

\* C6: a call that returns Timeout leaves the session as it was: the step in
\* which the call ends with Timeout and the step in which it returns change
\* neither the registry nor the reader and writer tasks, and leave the entry
\* and the oneshot of every other pending call untouched.
C6_TimeoutNotFatal ==
    [][\A c \in Callers :
         (/\ pc'[c] # pc[c]
          /\ pc'[c] \in {"done", "returned"}
          /\ result'[c].kind = "Timeout")
         => /\ UNCHANGED <<ENDPOINTS, reader, writer>>
            /\ \A k \in DOMAIN call_reply_tx_map :
                  call_reply_tx_map[k] # c
                  => /\ k \in DOMAIN call_reply_tx_map'
                     /\ call_reply_tx_map'[k] = call_reply_tx_map[k]
                     /\ rx'[call_reply_tx_map[k]] = rx[call_reply_tx_map[k]]]_vars

\* C7: no two sessions built for the same remote_device_id have a reader or a
\* writer task inside its loop at the same time.
C7_OneSessionPerPeer ==
    \A s \in Sessions : \A t \in Sessions :
        (s # t /\ remote_device_id[s] = remote_device_id[t])
        => ~ /\ (reader[s] = "running" \/ writer[s] = "running")
             /\ (reader[t] = "running" \/ writer[t] = "running")

\* C8: whenever two connect() invocations for the same remote_device_id have
\* both returned Ok and the registry holds one of the two sessions, the other
\* session is eventually closed: its reader and its writer task have ended.
C8_DisplacedSessionClosed ==
    \A s \in Sessions : \A t \in Sessions :
        (/\ s # t
         /\ remote_device_id[s] = remote_device_id[t]
         /\ conn[s] = "done" /\ conn[t] = "done"
         /\ Registered(t))
        ~> (reader[s] = "exited" /\ writer[s] = "exited")

\* C9: a session whose connect() has returned Ok is in the registry exactly
\* when both its reader task and its writer task are alive.
C9_RegisteredIffBothAlive ==
    \A s \in Sessions :
        conn[s] = "done"
        => (Registered(s) <=> (TaskAlive(reader[s]) /\ TaskAlive(writer[s])))

\* C10: the step in which a reader or writer task ends leaves no registry
\* entry under the session's remote_device_id, and when the session's other
\* task had ended before, that step leaves the registry as it was.
C10_RemovalIdempotent ==
    [][\A s \in Sessions :
         /\ (reader[s] # "exited" /\ reader'[s] = "exited")
            => /\ ENDPOINTS'[remote_device_id[s]] = NoSession
               /\ writer[s] = "exited" => ENDPOINTS' = ENDPOINTS
         /\ (writer[s] # "exited" /\ writer'[s] = "exited")
            => /\ ENDPOINTS'[remote_device_id[s]] = NoSession
               /\ reader[s] = "exited" => ENDPOINTS' = ENDPOINTS]_vars

\* C15: the outbound queue never holds more than PacketQueueCapacity
\* envelopes; a call that has registered can always take its send step (send
\* does not wait for room); and a send on a queue that holds
\* PacketQueueCapacity envelopes ends the call with the send error and leaves
\* the queue as it was.
C15_QueueBounded ==
    /\ [](Len(packet_queue) <= PacketQueueCapacity)
    /\ [](\A c \in Callers : pc[c] = "registered" => ENABLED CallSend(c))
    /\ [][\A c \in Callers :
            (/\ pc[c] = "registered" /\ pc'[c] # "registered"
             /\ Len(packet_queue) = PacketQueueCapacity)
            => /\ pc'[c] = "done"
               /\ result'[c] = SendErrorResult
               /\ packet_queue' = packet_queue]_vars

\* The queue is full and a call has returned the send error.
C15_Witness ==
    /\ Len(packet_queue) = PacketQueueCapacity
    /\ \E c \in Callers : pc[c] = "returned" /\ result[c].kind = "SendError"

\* C16: a Request handed to send() while the writer task runs is taken into
\* the outbound queue, whatever the queue holds: no call ends with the send
\* error while the writer is running.
C16_ControlNeverDropped ==
    \A c \in Callers : result[c].kind = "SendError" => writer[S0] # "running"

\* C11: once the reader task or the writer task of the session has ended,
\* having removed the registry entry, a message has been sent on the
\* session's exit channel.
C11_TeardownFiresExit ==
    (reader[S0] = "exited" \/ writer[S0] = "exited") => exit_chan > 0

C14_PushAfterHandler ==
    npushed > 0 => media_handler = "ok"

\* C17: the outbound queue changes only by a packet appended at its end or
\* by its first packet taken out; the frames on the wire grow only by one
\* frame at the end, in the step that takes the first packet out of the
\* queue; and every packet taken out by a writer that goes on running is
\* written as the next frame.
C17_WriterFifo ==
    /\ [][packet_queue' # packet_queue
            => \/ /\ packet_queue # << >>
                  /\ packet_queue' = Tail(packet_queue)
               \/ /\ Len(packet_queue') = Len(packet_queue) + 1
                  /\ SubSeq(packet_queue', 1, Len(packet_queue)) = packet_queue]_vars
    /\ [][wire' # wire
            => /\ packet_queue # << >>
               /\ packet_queue' = Tail(packet_queue)
               /\ Len(wire') = Len(wire) + 1
               /\ SubSeq(wire', 1, Len(wire)) = wire]_vars
    /\ [][(/\ packet_queue # << >>
            /\ Len(packet_queue') = Len(packet_queue) - 1
            /\ writer'[S0] = "running")
            => Len(wire') = Len(wire) + 1]_vars

\* The Response and two VideoFrame Pushes were accepted and all three were
\* written while the writer runs.
C17_Witness ==
    /\ Len(wire) = 3
    /\ npushed = 2
    /\ media_handler = "ok"
    /\ writer[S0] = "running"

\* C18: the VideoFrames in the decoder channel are in the order in which the
\* reader received them.
C18_VideoInReceiptOrder ==
    \A i, j \in 1..Len(video_frame_queue) :
        i < j => video_frame_queue[i] < video_frame_queue[j]

\* C19: the MouseEventFrames were dispatched in the order in which the
\* reader received them.
C19_InputInReceiptOrder ==
    \A i, j \in 1..Len(mouse_dispatched) :
        i < j => mouse_dispatched[i] < mouse_dispatched[j]

\* C20: the decoder channel never holds more than 16 frames, and a
\* VideoFrame handled while it holds 16 takes the place of the oldest one:
\* the oldest is dropped, the new one is enqueued at the end, and the
\* session stays registered with its reader and writer running.
C20_DropOldest ==
    /\ [](Len(video_frame_queue) <= VideoFrameCapacity)
    /\ [][\A t \in BagToSet(tasks) :
            (/\ t.kind = "VideoFrame"
             /\ tasks' = tasks (-) SetToBag({t})
             /\ Len(video_frame_queue) = VideoFrameCapacity)
            => /\ video_frame_queue' = Append(Tail(video_frame_queue), t.seq)
               /\ ENDPOINTS' = ENDPOINTS
               /\ reader' = reader
               /\ writer' = writer]_vars

\* C21: a tick of the capture loop that finds the channel to the encoder
\* full leaves the capture process running and sends nothing on the exit
\* channel.
C21_FullDropsNewestOnly ==
    [][(pipe["capture"] = "running" /\ capture_last' = "full")
        => /\ pipe'["capture"] = "running"
           /\ exit_chan' = exit_chan]_vars

\* C22: a tick of the capture loop whose capture fails leaves the capture
\* process running, sends nothing on the exit channel and leaves the session
\* registered with its reader and writer.
C22_CaptureErrorNotFatal ==
    [][(pipe["capture"] = "running" /\ capture_last' = "capture_err")
        => /\ pipe'["capture"] = "running"
           /\ exit_chan' = exit_chan
           /\ UNCHANGED <<ENDPOINTS, reader, writer>>]_vars

\* C23: while a push handle is unset its channel holds nothing; a VideoFrame
\* or AudioFrame handled while its handle is unset changes no channel and
\* leaves the session registered with reader and writer running; and a
\* channel grows only by the frame of the task handled in that very step,
\* so a frame dropped earlier is never queued later.
C23_EarlyPushDropped ==
    /\ [](video_frame_tx = "unset" => video_frame_queue = << >>)
    /\ [](audio_frame_tx = "unset" => audio_frame_queue = << >>)
    /\ [][\A t \in BagToSet(tasks) :
            (/\ tasks' = tasks (-) SetToBag({t})
             /\ \/ t.kind = "VideoFrame" /\ video_frame_tx = "unset"
                \/ t.kind = "AudioFrame" /\ audio_frame_tx = "unset")
            => /\ UNCHANGED <<video_frame_queue, audio_frame_queue>>
               /\ UNCHANGED <<ENDPOINTS, reader, writer>>]_vars
    /\ [][video_frame_queue' # video_frame_queue
            => \/ /\ video_frame_queue # << >>
                  /\ video_frame_queue' = Tail(video_frame_queue)
               \/ \E t \in BagToSet(tasks) :
                     /\ t.kind = "VideoFrame"
                     /\ tasks' = tasks (-) SetToBag({t})
                     /\ video_frame_tx = "set"
                     /\ video_frame_queue' = Append(video_frame_queue, t.seq)]_vars
    /\ [][audio_frame_queue' # audio_frame_queue
            => \E t \in BagToSet(tasks) :
                     /\ t.kind = "AudioFrame"
                     /\ tasks' = tasks (-) SetToBag({t})
                     /\ audio_frame_tx = "set"
                     /\ audio_frame_queue' = Append(audio_frame_queue, t.seq)]_vars

\* Two pushes were received and handled while neither handle was set, and
\* nothing is queued.
C23_Witness ==
    /\ video_frame_tx = "unset"
    /\ audio_frame_tx = "unset"
    /\ nframes >= 2
    /\ tasks = EmptyBag
    /\ video_frame_queue = << >>
    /\ audio_frame_queue = << >>

\* C24: a Request with call_id c whose variant has no handler is answered:
\* the step that ends its task puts exactly the Response with call_id c and
\* the Error message at the end of the outbound queue, and the session stays
\* registered with its reader and writer.
C24_UnknownRequestGetsError ==
    [][\A t \in BagToSet(tasks) :
        (/\ t.kind \notin HandledKinds
         /\ t.call_id # NoCallId
         /\ tasks' = tasks (-) SetToBag({t}))
        => /\ packet_queue' = Append(packet_queue, ResponsePacket(t.call_id, "Error"))
           /\ UNCHANGED <<ENDPOINTS, reader, writer>>]_vars

\* C25: the step that ends the task of a Request with call_id c whose
\* handler returned puts exactly one Response with call_id c at the end of
\* the outbound queue, with the handler's message for Ok and Error for Err,
\* and leaves the session registered; the outbound queue grows by a Response
\* in no other step; and the task of a Request without call_id ends with
\* its handler never called and the queue unchanged.
C25_OneResponsePerRequest ==
    /\ [][\A t \in BagToSet(tasks) :
            (/\ t.kind \in HandledKinds
             /\ t.call_id # NoCallId
             /\ tasks' = tasks (-) SetToBag({t}))
            => /\ t.result \in {"ok", "err"}
               /\ packet_queue' =
                     Append(packet_queue,
                            ResponsePacket(t.call_id,
                                           IF t.result = "ok"
                                              THEN ResponseMessage(t) ELSE "Error"))
               /\ UNCHANGED <<ENDPOINTS, reader, writer>>]_vars
    /\ [][\A t \in BagToSet(tasks) :
            (t.call_id = NoCallId /\ tasks' = tasks (-) SetToBag({t}))
            => t.result = "pending" /\ packet_queue' = packet_queue]_vars
    /\ [](\A t \in BagToSet(tasks) : t.call_id = NoCallId => t.result = "pending")

\* C26: every envelope in the outbound queue of type Request or Response has
\* a call_id, and every envelope of type Push has none.
C26_CallIdByType ==
    \A i \in 1..Len(packet_queue) :
        /\ packet_queue[i].typ \in {"Request", "Response", "Push"}
        /\ packet_queue[i].typ \in {"Request", "Response"}
              => packet_queue[i].call_id # NoCallId
        /\ packet_queue[i].typ = "Push" => packet_queue[i].call_id = NoCallId

\* A call's Request and a reply's Response were accepted behind Push
\* envelopes and fill the queue.
C26_Witness ==
    /\ Len(packet_queue) = PacketQueueCapacity
    /\ \E i, j \in (PacketQueueCapacity - 1)..PacketQueueCapacity :
          /\ packet_queue[i].typ = "Request"
          /\ packet_queue[j].typ = "Response"
    /\ packet_queue[1].typ = "Push"

\* C27: a turn of the reader loop on a frame that opens but does not
\* deserialize leaves the reader running and the registry entry in place.
C27_DeserializeErrorNotFatal ==
    [][(reader[S0] = "running" /\ read_result' = "deserialize_err")
        => /\ reader'[S0] = "running"
           /\ ENDPOINTS' = ENDPOINTS]_vars

C29_FailedConnectLeavesNothing ==
    /\ [](\A s \in Sessions :
            conn[s] = "failed"
            => /\ reader[s] = "none"
               /\ writer[s] = "none"
               /\ \A p \in PeerIds : ENDPOINTS[p] # s)
    /\ [][\A s \in Sessions :
            (conn[s] # "failed" /\ conn'[s] = "failed")
            => UNCHANGED <<ENDPOINTS, reader, writer>>]_vars
    /\ [](\A s \in Sessions :
            (reader[s] # "none" \/ writer[s] # "none"
                \/ \E p \in PeerIds : ENDPOINTS[p] = s)
            => handshake_response_buf[s] = "accept")
    /\ [](\A s \in Sessions :
            handshake_response_buf[s] \in {"reject", "timeout", "read_err"}
            => conn[s] = "failed")

\* One connect() was rejected by the handshake byte and returned an error
\* while another one to the same peer went through and is registered.
C29_Witness ==
    \E s, t \in Sessions :
        /\ conn[s] = "failed"
        /\ handshake_response_buf[s] = "reject"
        /\ conn[t] = "done"
        /\ ENDPOINTS[remote_device_id[t]] = t

C31_OneErrorEndsStream ==
    \A t \in TransferIds :
        \A i \in 1..Len(download[t].sent) :
            download[t].sent[i] = "FileTransferError"
            => /\ i = Len(download[t].sent)
               /\ download[t].task = "done"
               /\ \A j \in 1..(i - 1) : download[t].sent[j] # "FileTransferError"

\* The request was accepted, a payload frame was streamed, then reading the
\* file failed and the error was pushed.
C31_Witness ==
    \E t \in TransferIds :
        /\ Len(download[t].sent) = 3
        /\ download[t].sent[1] = "DownloadFileReply"
        /\ download[t].sent[2] = "payload"
        /\ download[t].sent[3] = "FileTransferError"

\* C32: for every transfer id whose request named a path that is not a regular
\* file (the handler returned Err and spawned no task), once the request is
\* answered a FileTransferError was sent for the id and no payload frame was.
C32_NotAFileReportedByPush ==
    \A t \in TransferIds :
        (download[t].handler = "replied" /\ download[t].task = "none")
        => /\ \E i \in 1..Len(download[t].sent) : download[t].sent[i] = "FileTransferError"
           /\ \A i \in 1..Len(download[t].sent) : download[t].sent[i] # "payload"

\* C33: the decoder's output channel holds one frame per picture the codec
\* gave to decode(), in decode order (pictures are numbered as obtained), and
\* never more than 16 frames.
C33_DecodedPicturesOnOutput ==
    /\ Len(video_decoder.output) <= VideoFrameCapacity
    /\ video_decoder.pictures <= VideoFrameCapacity
       => video_decoder.output = [i \in 1..video_decoder.pictures |-> i]

\* C40: every open() of a decoder whose output_tx is already set returns
\* "already opened" and leaves output_tx and the channel as they were; an
\* open() of a decoder not yet opened either fails in the codec and leaves
\* output_tx unset, or succeeds and sets it.
C40_OpenedAtMostOnce ==
    [][video_decoder'.opens = video_decoder.opens + 1
       => IF video_decoder.output_tx # 0
             THEN /\ video_decoder'.open_result = "already_opened"
                  /\ video_decoder'.output_tx = video_decoder.output_tx
                  /\ video_decoder'.output = video_decoder.output
             ELSE \/ /\ video_decoder'.open_result = "open_failed"
                     /\ video_decoder'.output_tx = 0
                  \/ /\ video_decoder'.open_result = "rx"
                     /\ video_decoder'.output_tx = video_decoder'.opens]_vars

\* The first open() failed in the codec, the second succeeded and made the
\* channel, the third was refused.
C40_Witness ==
    /\ video_decoder.opens = 3
    /\ video_decoder.output_tx = 2
    /\ video_decoder.open_result = "already_opened"

\* C34: the step in which a reader or writer task of session s ends removes
\* no registry entry that holds another session: every entry of a session
\* other than s is still there after the step.
C34_TeardownRemovesOwnEntry ==
    [][\A s \in Sessions :
         ((reader[s] # "exited" /\ reader'[s] = "exited")
          \/ (writer[s] # "exited" /\ writer'[s] = "exited"))
         => \A id \in DOMAIN ENDPOINTS :
                ENDPOINTS[id] \notin {NoSession, s} => ENDPOINTS'[id] = ENDPOINTS[id]]_vars

\* C35: whenever the Request of a call was handed to the outbound queue and
\* the call still waits for its reply (its oneshot is empty), the
\* pending-calls map holds the slot of that call under its call_id.
C35_SlotBeforeRequest ==
    \A c \in Callers :
        (accepted[c] /\ pc[c] = "waiting" /\ rx[c].st = "empty")
        => /\ call_id[c] \in DOMAIN call_reply_tx_map
           /\ call_reply_tx_map[call_id[c]] = c

\* A Response for the call id of a call that still waits has been read and
\* its task is about to run set_call_reply.
C35_Witness ==
    \E c \in Callers :
        /\ accepted[c] /\ pc[c] = "waiting" /\ rx[c].st = "empty"
        /\ \E t \in BagToSet(tasks) : t.typ = "Response" /\ t.call_id = call_id[c]
        /\ call_id[c] \in DOMAIN call_reply_tx_map

\* C36: while the reader runs and the handler of a Request it dispatched has
\* not returned, the reader can take its next turn on a Request, on a
\* Response and on a Push alike (as far as the bounds on frames and on
\* outstanding tasks allow a further frame).
C36_HandlerNeverBlocksReader ==
    (/\ reader[S0] = "running"
     /\ \E t \in TasksOfType("Request") : t.result = "pending"
     /\ nframes < MaxFrames
     /\ BagCardinality(tasks) < MaxInflight)
    => /\ \A kind \in HandledKinds : ENABLED ReaderRecvRequest(kind, MediaRequestCallId)
       /\ \A id \in ResponseIds : ENABLED ReaderRecv(id)
       /\ \A kind \in PushKinds : ENABLED ReaderRecvPush(kind)

\* The handler of a Request has not returned and the envelope of a later
\* frame, a Response or a Push, was dispatched to its own task.
C36_Witness ==
    /\ \E t \in TasksOfType("Request") : t.result = "pending"
    /\ \E t \in BagToSet(tasks) : t.typ # "Request"
    /\ reader[S0] = "running"

\* C37: the step in which the capture task ends puts exactly one message
\* into the exit channel (after taking out the one it received, if it ended
\* on the exit signal); and a step taken while an exit message is pending is
\* never a capture tick: no frame is captured or sent in it.
C37_CaptureExitOnceAndFirst ==
    /\ [][(pipe["capture"] = "running" /\ pipe'["capture"] = "exited")
          => exit_chan' = (IF exit_chan > 0 THEN exit_chan - 1 ELSE exit_chan) + 1]_vars
    /\ [][exit_chan > 0
          => /\ capture_frame_q' <= capture_frame_q
             /\ capture_last' = capture_last]_vars

\* The capture task has ended on a capture error while the encode process
\* still runs, and its exit message is in the channel.
C37_Witness ==
    /\ pipe["capture"] = "exited"
    /\ capture_last = "capture_err"
    /\ exit_chan > 0
    /\ pipe["encode"] = "running"

\* C38: after a start_video_capture that returned Ok, the monitor recorded as
\* display_id, the monitor that configures the encoder and the display the
\* capture process was started on are the monitor that was chosen, and both
\* processes run at min(refresh_rate, expected fps); after the error of no
\* requested and no primary monitor, nothing was started and display_id is
\* unset.
C38_OneMonitorThroughout ==
    /\ video_capture.result = "ok"
       => /\ video_capture.display_id = video_capture.monitor
          /\ video_capture.encoder_monitor = video_capture.monitor
          /\ video_capture.capture_display = video_capture.monitor
          /\ \E i \in DOMAIN video_capture.monitors :
                /\ video_capture.monitors[i].id = video_capture.monitor
                /\ video_capture.encoder_fps
                     = Min(video_capture.monitors[i].refresh_rate, video_capture.except_fps)
                /\ video_capture.capture_fps = video_capture.encoder_fps
    /\ video_capture.result = "err_no_monitor"
       => /\ video_capture.capture_display = 0
          /\ video_capture.encoder_monitor = 0
          /\ video_capture.display_id = 0

\* C39: once video_frame_tx holds the Sender of a pipeline it holds it for
\* good, and only that pipeline's channel is ever sent a VideoFrame: the
\* channel of every pipeline started later stays empty.
C39_HandleNeverReplaced ==
    /\ [][video_render.handle # 0
          => video_render'.handle = video_render.handle]_vars
    /\ [](\A k \in 1..video_render.started :
            k # video_render.handle => video_render.received[k] = << >>)

\* Two pipelines were started, and a VideoFrame that arrived after the
\* second start was sent to the channel of the first.
C39_Witness ==
    /\ video_render.started >= 2
    /\ video_render.handle = 1
    /\ \E i \in 1..Len(video_render.received[1]) : video_render.received[1][i][2] >= 2
    /\ video_render.received[2] = << >>

====
